---- MODULE Spec2Model ----
(***************************************************************************)
(* Model of the tool-calling orchestration engine of horizon-agent         *)
(* (src/app.py): the circuit breaker, the model-call orchestrator, the     *)
(* conversation log, the exclusive section assistant_lock and the entry    *)
(* points process_user_message, process_user_message_stream,               *)
(* handle_tool_call and api_execute_action.                                *)
(*                                                                         *)
(* Python values are encoded with uniform shapes: None is the string       *)
(* "None", a text is a sequence of string fragments, a dict is a record.   *)
(* Time is counted in whole seconds.                                       *)
(***************************************************************************)
EXTENDS Integers, Sequences, FiniteSets, TLC

VARIABLES
    now,                \* time.time(), the wall clock
    circuit_breaker,    \* a CircuitBreaker instance (assistant.circuit_breaker)
    cb_pc,              \* position of the breaker's single caller: "idle" | "in_func"
    cb_calls,           \* number of CircuitBreaker.call invocations since construction
    cb_fails,           \* number of those in which the wrapped function raised
    cb_last,            \* observation of the latest CircuitBreaker.call
    messages,           \* assistant.messages, the conversation log
    msg_by,             \* for each entry of messages, the thread that appended it
    assistant_lock,     \* holder of assistant_lock, 0 when it is free
    last_request_time,  \* assistant.last_request_time
    req,                \* per request thread: operation, position, locals, return value
    api_key,            \* whether OPENROUTER_API_KEY is set in the environment
    orch,               \* observation of the latest _execute_model_call made on its own
    files,              \* the file system: for each path, whether it exists and its text
    backups,            \* the Backup Store (BACKUP_DIR): records [name, content]
    fs,                 \* the file tool call in progress, or the latest one
    cmd,                \* observation of the latest run_command call
    pv,                 \* observation of the latest preview request
    current_directories,\* the module's map session_id -> current directory
    current_directory,  \* assistant.current_directory
    resolved,           \* observation of the latest directory request or tool path
    parse               \* the stream reader: its lines, position and full_response

cbvars == <<circuit_breaker, cb_pc, cb_calls, cb_fails, cb_last>>
toolvars == <<cmd, pv, current_directories, current_directory, resolved, parse>>
auxvars == <<orch, files, backups, fs, toolvars>>
sysvars == <<messages, msg_by, assistant_lock, last_request_time, req, api_key, auxvars>>
vars == <<now, circuit_breaker, cb_pc, cb_calls, cb_fails, cb_last,
          messages, msg_by, assistant_lock, last_request_time, req, api_key, auxvars>>


----------------------------------------------------------------------------
(* Bounds of the model *)

MaxTimeCB == 7            \* the clock stops advancing here
MaxThreshold == 3       \* failure_threshold is drawn from 1..MaxThreshold
MaxTimeout == 2         \* recovery_timeout is drawn from 1..MaxTimeout
MaxCalls == 5           \* CircuitBreaker.call invocations per behaviour

----------------------------------------------------------------------------
(* CircuitBreaker, src/app.py:52-78 *)

\* CircuitBreaker.__init__
CircuitBreaker_init(failure_threshold, recovery_timeout) ==
    [failure_threshold |-> failure_threshold,
     recovery_timeout  |-> recovery_timeout,
     failure_count     |-> 0,
     last_failure_time |-> 0,
     state             |-> "CLOSED"]

\* A test that already passes when exactly recovery_timeout has elapsed.
cb_timeout_elapsed_at_boundary(cb, t) == t - cb.last_failure_time >= cb.recovery_timeout

\* The OPEN test at the head of call: the recovery timeout has elapsed.
cb_timeout_elapsed(cb, t) == t - cb.last_failure_time > cb.recovery_timeout

\* A head of call that lets every call through.
cb_admit_always(cb, t) ==
    IF cb.state = "OPEN" /\ cb_timeout_elapsed(cb, t)
    THEN [cb |-> [cb EXCEPT !.state = "HALF_OPEN"], rejected |-> FALSE]
    ELSE [cb |-> cb, rejected |-> FALSE]

\* call, lines 61-65: [cb, rejected]; rejected stands for
\* raise Exception("Circuit breaker is OPEN").
cb_admit(cb, t) ==
    IF cb.state = "OPEN"
    THEN IF cb_timeout_elapsed(cb, t)
         THEN [cb |-> [cb EXCEPT !.state = "HALF_OPEN"], rejected |-> FALSE]
         ELSE [cb |-> cb, rejected |-> TRUE]
    ELSE [cb |-> cb, rejected |-> FALSE]

\* A success path that closes the breaker without clearing failure_count.
cb_on_success_keeping_count(cb) ==
    IF cb.state = "HALF_OPEN" THEN [cb EXCEPT !.state = "CLOSED"] ELSE cb

\* A success path that clears failure_count in every state.
cb_on_success_resetting(cb) ==
    IF cb.state = "HALF_OPEN"
    THEN [cb EXCEPT !.state = "CLOSED", !.failure_count = 0]
    ELSE [cb EXCEPT !.failure_count = 0]

\* A success path that leaves the breaker as the call found it.
cb_on_success_doing_nothing(cb) == cb

\* call, lines 69-72: the wrapped function returned.
cb_on_success(cb) ==
    IF cb.state = "HALF_OPEN"
    THEN [cb EXCEPT !.state = "CLOSED", !.failure_count = 0]
    ELSE cb

\* A threshold test that trips one failure late.
cb_tripped_above(cb) == cb.failure_count > cb.failure_threshold

\* A failure path that does not stamp last_failure_time.
cb_on_failure_keeping_time(cb, t) ==
    LET c1 == [cb EXCEPT !.failure_count = @ + 1]
    IN  IF c1.failure_count >= c1.failure_threshold
        THEN [c1 EXCEPT !.state = "OPEN"] ELSE c1

\* A failure path that counts and stamps the failure but never opens.
cb_on_failure_counting_only(cb, t) ==
    [cb EXCEPT !.failure_count = @ + 1, !.last_failure_time = t]

\* The threshold test of the except branch.
cb_tripped(cb) == cb.failure_count >= cb.failure_threshold

\* call, lines 73-78: the wrapped function raised at time t.
cb_on_failure(cb, t) ==
    LET c1 == [cb EXCEPT !.failure_count = @ + 1, !.last_failure_time = t]
    IN  IF cb_tripped(c1) THEN [c1 EXCEPT !.state = "OPEN"] ELSE c1

\* What the wrapped function's successful result becomes for the caller
\* (return result, line 72).
cb_return(result) == result

----------------------------------------------------------------------------
(* Program constants of EnhancedAIAssistant and its CircuitBreaker()       *)

DEFAULT_FAILURE_THRESHOLD == 5
DEFAULT_RECOVERY_TIMEOUT == 60
request_interval == 16

active_model_list ==
    <<"openrouter/horizon-beta",
      "openrouter/anthropic/claude-3.5-sonnet",
      "openrouter/meta-llama/llama-3.1-8b-instruct">>

\* assistant.available_functions: the catalog of nine tools
available_functions ==
    {"list_files", "read_file", "write_file", "delete_file", "insert_at_line",
     "replace_code", "create_directory", "search_files", "run_command"}

\* dangerous_tools of handle_tool_call
dangerous_tools ==
    {"write_file", "delete_file", "create_directory", "replace_code", "insert_at_line"}

----------------------------------------------------------------------------
(* Encoding of Python values                                               *)

\* A requests.Response; (None) is NoneResponse.
NoneResponse == [status_code |-> 0, stream |-> "None"]

\* A message's content: a str, a dict (a tool's result), or the tuple
\* (response, error) that _execute_model_call returns.
Str(text) == [type |-> "str", text |-> text, response |-> NoneResponse, error |-> "None"]
Dict(text) == [type |-> "dict", text |-> text, response |-> NoneResponse, error |-> "None"]
Tuple(response, error) ==
    [type |-> "tuple", text |-> <<>>, response |-> response, error |-> error]

\* The system message of EnhancedAIAssistant.__init__
system_message ==
    [role |-> "system", name |-> "None",
     content |-> Str(<<"You are an AI coding assistant">>)]

----------------------------------------------------------------------------
(* The model backend's event stream, one record per line of iter_lines()   *)

Delta(c)  == [kind |-> "data",  payload |-> "json",    choices |-> TRUE,  content |-> c]
RoleOnly  == [kind |-> "data",  payload |-> "json",    choices |-> TRUE,  content |-> "None"]
NoChoices == [kind |-> "data",  payload |-> "json",    choices |-> FALSE, content |-> "None"]
BadJson   == [kind |-> "data",  payload |-> "notjson", choices |-> FALSE, content |-> "None"]
DoneLine  == [kind |-> "data",  payload |-> "[DONE]",  choices |-> FALSE, content |-> "None"]
BlankLine == [kind |-> "blank", payload |-> "",        choices |-> FALSE, content |-> "None"]
Comment   == [kind |-> "other", payload |-> "",        choices |-> FALSE, content |-> "None"]

\* The streams the backend answers with in this model: s1 is prose with every
\* kind of line, s2 is a fenced JSON block holding the tool call
\*   {"tool_call": {"name": "list_files", "arguments": {}}}
\* sent as three deltas: the opening fence, the JSON text, the closing fence.
Streams == {"s1", "s2"}

StreamLines(s) ==
    CASE s = "s1" -> <<Comment, RoleOnly, Delta("Here"), BlankLine, BadJson, NoChoices,
                       Delta("you go"), DoneLine, Delta("late")>>
      [] s = "s2" -> <<Delta("fence json"), Delta("tool_call list_files"),
                       Delta("fence"), DoneLine>>
      [] OTHER    -> <<>>

\* A reader that gives up at the first payload that is not JSON.
RECURSIVE accumulate_aborting(_, _)
accumulate_aborting(lines, full_response) ==
    IF lines = <<>> THEN full_response
    ELSE LET line == Head(lines) IN
         IF line.kind # "data" THEN accumulate_aborting(Tail(lines), full_response)
         ELSE IF line.payload \in {"[DONE]", "notjson"} THEN full_response
         ELSE IF line.choices /\ line.content # "None"
              THEN accumulate_aborting(Tail(lines), Append(full_response, line.content))
              ELSE accumulate_aborting(Tail(lines), full_response)

\* The accumulation loop of handle_tool_call (609-624) and of
\* api_execute_action (663-678): full_response after reading `lines`.
RECURSIVE accumulate(_, _)
accumulate(lines, full_response) ==
    IF lines = <<>> THEN full_response
    ELSE LET line == Head(lines) IN
         IF line.kind # "data" THEN accumulate(Tail(lines), full_response)
         ELSE IF line.payload = "[DONE]" THEN full_response
         ELSE IF line.payload = "notjson" THEN accumulate(Tail(lines), full_response)
         ELSE IF line.choices /\ line.content # "None"
              THEN accumulate(Tail(lines), Append(full_response, line.content))
              ELSE accumulate(Tail(lines), full_response)

\* A reader that keeps reading after data: [DONE].
RECURSIVE accumulate_past_done(_, _)
accumulate_past_done(lines, full_response) ==
    IF lines = <<>> THEN full_response
    ELSE LET line == Head(lines) IN
         IF line.kind = "data" /\ line.choices /\ line.content # "None"
         THEN accumulate_past_done(Tail(lines), Append(full_response, line.content))
         ELSE accumulate_past_done(Tail(lines), full_response)

full_response_past_done(response) ==
    accumulate_past_done(StreamLines(response.stream), <<>>)

full_response_of(response) == accumulate(StreamLines(response.stream), <<>>)

----------------------------------------------------------------------------
(* EnhancedAIAssistant._execute_model_call, src/app.py:383-443             *)

Outcomes == {"200", "500", "raise"}   \* of requests.post for one model
ModelSet == {active_model_list[i] : i \in 1..Len(active_model_list)}

\* A caller that never sleeps.
rate_limit_no_wait(t, last) == t

\* Rate limiting, lines 386-392: the time at which the wait is over.
rate_limit_wait(t, last) ==
    IF t - last < request_interval THEN t + (request_interval - (t - last)) ELSE t

\* A selection that leaves the preferred model in the list behind it.
models_to_try_keeping_preferred(model_name) ==
    IF model_name # "None" THEN <<model_name>> \o active_model_list ELSE active_model_list

\* Model selection, lines 405-409.
models_to_try(model_name) ==
    IF model_name # "None"
    THEN <<model_name>> \o SelectSeq(active_model_list, LAMBDA m : m # model_name)
    ELSE active_model_list

\* A loop that returns whatever response the first answering model gives.
RECURSIVE try_models_any_status(_, _, _, _, _, _, _)
try_models_any_status(models, cb, t, out, d, s, attempts) ==
    IF models = <<>>
    THEN [response |-> NoneResponse, error |-> "All models failed",
          cb |-> cb, t |-> t, attempts |-> attempts]
    ELSE LET model == Head(models)
             at == [model |-> model, at |-> t, how |-> out[model]]
         IN  IF out[model] = "raise"
             THEN try_models_any_status(Tail(models), cb, t + d, out, d, s,
                                        Append(attempts, at))
             ELSE [response |-> [status_code |-> 200, stream |-> s], error |-> "None",
                   cb |-> cb, t |-> t + d, attempts |-> Append(attempts, at)]

\* A loop in which a non-200 response counts as a failure of the breaker.
RECURSIVE try_models_counting_status(_, _, _, _, _, _, _)
try_models_counting_status(models, cb, t, out, d, s, attempts) ==
    IF models = <<>>
    THEN [response |-> NoneResponse, error |-> "All models failed",
          cb |-> cb, t |-> t, attempts |-> attempts]
    ELSE LET model == Head(models)
             adm == cb_admit(cb, t)
             t1 == t + d
             tried(how) == Append(attempts, [model |-> model, at |-> t, how |-> how])
         IN  IF adm.rejected
             THEN try_models_counting_status(Tail(models), adm.cb, t, out, d, s,
                                             tried("rejected"))
             ELSE IF out[model] # "200"
             THEN try_models_counting_status(Tail(models), cb_on_failure(adm.cb, t1),
                                             t1, out, d, s, tried(out[model]))
             ELSE [response |-> [status_code |-> 200, stream |-> s], error |-> "None",
                   cb |-> cb_on_success(adm.cb), t |-> t1, attempts |-> tried("200")]

\* The failover loop, lines 411-443. out[m] is what requests.post does for
\* model m, d how long one request takes, s the stream of a 200 response.
\* attempts collects, per candidate tried, the time of the attempt and how it
\* went: "rejected" by the breaker without a request, or the outcome of the
\* request that was sent.
RECURSIVE try_models(_, _, _, _, _, _, _)
try_models(models, cb, t, out, d, s, attempts) ==
    IF models = <<>>
    THEN [response |-> NoneResponse, error |-> "All models failed",
          cb |-> cb, t |-> t, attempts |-> attempts]
    ELSE LET model == Head(models)
             adm == cb_admit(cb, t)
             t1 == t + d
             tried(how) == Append(attempts, [model |-> model, at |-> t, how |-> how])
         IN  IF adm.rejected
             THEN try_models(Tail(models), adm.cb, t, out, d, s, tried("rejected"))
             ELSE IF out[model] = "raise"
             THEN try_models(Tail(models), cb_on_failure(adm.cb, t1), t1, out, d, s,
                             tried("raise"))
             ELSE IF out[model] # "200"
             THEN try_models(Tail(models), cb_on_success(adm.cb), t1, out, d, s,
                             tried(out[model]))
             ELSE [response |-> [status_code |-> 200, stream |-> s], error |-> "None",
                   cb |-> cb_on_success(adm.cb), t |-> t1, attempts |-> tried("200")]

execute_model_call(cb, t, last, model_name, key, out, d, s) ==
    LET t0 == rate_limit_wait(t, last)
    IN  IF ~key
        THEN [response |-> NoneResponse,
              error |-> "OPENROUTER_API_KEY environment variable not set.",
              cb |-> cb, t |-> t0, attempts |-> <<>>, last_request_time |-> t0]
        ELSE LET r == try_models(models_to_try(model_name), cb, t0, out, d, s, <<>>)
             IN  [response |-> r.response, error |-> r.error, cb |-> r.cb,
                  t |-> r.t, attempts |-> r.attempts, last_request_time |-> t0]

\* Nothing observed yet.
NoOrch == [calls |-> 0, model_name |-> "None", called_at |-> 0, prev_last |-> 0,
           attempts |-> <<>>, response |-> NoneResponse, error |-> "None"]

----------------------------------------------------------------------------
(* The file tools write_file, delete_file, insert_at_line and replace_code, *)
(* src/app.py:241-341. A text is a sequence of characters.                  *)

\* Two files with the same basename in different directories.
FsPaths == {"a/x", "b/x"}
basename(path) == "x"                       \* os.path.basename

Absent == [exists |-> FALSE, content |-> <<>>]
File(content) == [exists |-> TRUE, content |-> content]

\* f.readlines(): the lines of a text, each with its line end.
RECURSIVE readlines_from(_, _)
readlines_from(text, line) ==
    IF text = <<>> THEN (IF line = <<>> THEN <<>> ELSE <<line>>)
    ELSE IF Head(text) = "\n"
         THEN <<Append(line, "\n")>> \o readlines_from(Tail(text), <<>>)
         ELSE readlines_from(Tail(text), Append(line, Head(text)))

readlines(text) == readlines_from(text, <<>>)

\* f.writelines(lines)
RECURSIVE writelines(_)
writelines(lines) ==
    IF lines = <<>> THEN <<>> ELSE Head(lines) \o writelines(Tail(lines))

\* list.insert(i, x): i beyond the end appends, a negative i counts from the end.
list_insert(lines, i, x) ==
    LET n == Len(lines)
        k == IF i < 0 THEN (IF n + i < 0 THEN 0 ELSE n + i)
             ELSE (IF i > n THEN n ELSE i)
    IN  SubSeq(lines, 1, k) \o <<x>> \o SubSeq(lines, k + 1, n)

\* A replace that stops after the first occurrence.
RECURSIVE str_replace_first(_, _, _)
str_replace_first(text, old, new) ==
    IF old = <<>> THEN new \o text
    ELSE IF Len(text) < Len(old) THEN text
    ELSE IF SubSeq(text, 1, Len(old)) = old
         THEN new \o SubSeq(text, Len(old) + 1, Len(text))
         ELSE <<Head(text)>> \o str_replace_first(Tail(text), old, new)

\* str.replace(old, new): every non-overlapping occurrence, from the left;
\* an empty old matches before every character and at the end.
RECURSIVE str_replace(_, _, _)
str_replace(text, old, new) ==
    IF old = <<>>
    THEN (IF text = <<>> THEN new
          ELSE new \o <<Head(text)>> \o str_replace(Tail(text), old, new))
    ELSE IF Len(text) < Len(old) THEN text
    ELSE IF SubSeq(text, 1, Len(old)) = old
         THEN new \o str_replace(SubSeq(text, Len(old) + 1, Len(text)), old, new)
         ELSE <<Head(text)>> \o str_replace(Tail(text), old, new)

\* A Backup Store that takes no record.
write_backup_nothing(store, path, t, content) == store

\* lines 250-253 (and 270, 303, 329): the record is named after the file's
\* basename and the current second; writing under an existing name replaces it.
backup_name(path, t) == <<basename(path), t>>
write_backup(store, path, t, content) ==
    {b \in store : b.name # backup_name(path, t)}
        \cup {[name |-> backup_name(path, t), content |-> content]}

\* What the tool writes to an existing file once the backup is done.
\* write_file: 255-256; insert_at_line: 309-312; replace_code: 334-337.
mutated(call, content) ==
    CASE call.tool = "write_file" -> File(call.content)
      [] call.tool = "delete_file" -> Absent
      [] call.tool = "insert_at_line" ->
           File(writelines(list_insert(readlines(content), call.line_number - 1,
                                       Append(call.code_to_insert, "\n"))))
      [] call.tool = "replace_code" ->
           File(str_replace(content, call.old_code, call.new_code))

NoFs == [calls |-> 0, pc |-> "idle", tool |-> "None", path |-> "a/x",
         content |-> <<>>, code_to_insert |-> <<>>, line_number |-> 0,
         old_code |-> <<>>, new_code |-> <<>>,
         pre |-> Absent, backup |-> <<"None", 0>>, result |-> "None"]

----------------------------------------------------------------------------
(* run_command, src/app.py:367-381. A command is a sequence of characters.  *)

MaxCmdLen == 3          \* characters in a command
MaxCmdCalls == 2        \* run_command calls per behaviour

safe_commands ==
    {<<"p", "y", "t", "h", "o", "n">>, <<"p", "i", "p">>, <<"n", "p", "m">>,
     <<"n", "o", "d", "e">>, <<"g", "i", "t">>, <<"l", "s">>, <<"c", "a", "t">>,
     <<"h", "e", "a", "d">>, <<"t", "a", "i", "l">>}

\* sub in text: sub occurs in text as a contiguous run of characters.
contains(text, sub) ==
    \E i \in 1..(Len(text) + 1) :
        /\ i + Len(sub) - 1 <= Len(text)
        /\ SubSeq(text, i, i + Len(sub) - 1) = sub

\* str.lower() on the characters commands are made of here
char_lower(c) == IF c = "L" THEN "l" ELSE IF c = "S" THEN "s" ELSE c
str_lower(text) == [i \in 1..Len(text) |-> char_lower(text[i])]

\* A check that lets every command through.
command_allowed_always(command) == TRUE

\* line 370: any(cmd in command.lower() for cmd in safe_commands)
command_allowed(command) ==
    \E c \in safe_commands : contains(str_lower(command), c)

----------------------------------------------------------------------------
(* api_preview_replace_diff and api_preview_write_diff, src/app.py:683-750  *)

\* A file system in which the file has been opened for writing.
open_for_writing(fsys, filename) ==
    [fsys EXCEPT ![filename] = [exists |-> TRUE, content |-> <<>>]]

\* open(filename, 'r') and f.read(): the file system is left as it is.
open_for_reading(fsys, filename) == fsys

----------------------------------------------------------------------------
(* The current directory: the module's current_directories map (line 45),   *)
(* get_current_directory (105-109), api_tree (752-804),                     *)
(* api_change_directory (835-869) and the path resolution of the tools      *)
(* (213-214, 225-226, 245-246, ...). A path is the sequence of its          *)
(* components, the first of which is "/" when the path is absolute.         *)

workspace_root == <<"/", "w">>              \* os.path.abspath('.')

\* What is on disk: "dir", "file" or "none" (os.path.exists, os.path.isdir).
path_kind(path) ==
    IF path \in {workspace_root, <<"/", "w", "a">>, <<"/", "w", "b">>, <<"/", "etc">>}
    THEN "dir"
    ELSE IF path \in {<<"/", "w", "f">>, <<"/", "w", "a", "x">>} THEN "file"
    ELSE "none"

\* os.path.join(directory, path); os.path.isabs(path) is path[1] = "/"
path_join(directory, path) ==
    IF path # <<>> /\ path[1] = "/" THEN path ELSE directory \o path

\* os.path.normpath on the components after the root: '.' is dropped, '..'
\* removes the component before it.
RECURSIVE normpath(_, _)
normpath(parts, done) ==
    IF parts = <<>> THEN done
    ELSE IF Head(parts) = "." THEN normpath(Tail(parts), done)
    ELSE IF Head(parts) = ".."
         THEN normpath(Tail(parts),
                       IF done = <<>> THEN <<>> ELSE SubSeq(done, 1, Len(done) - 1))
         ELSE normpath(Tail(parts), Append(done, Head(parts)))

\* os.path.abspath(path)
abspath(path) == <<"/">> \o normpath(Tail(path_join(workspace_root, path)), <<>>)

\* get_current_directory(session_id), lines 105-109
get_current_directory(dirs, session_id) ==
    IF session_id \in DOMAIN dirs THEN dirs[session_id] ELSE workspace_root

\* line 861: hasattr(app, 'assistant'). The assistant is the module global
\* of line 468; the Flask app object is never given that attribute.
app_has_assistant == FALSE

\* The path a tool works on: os.path.join(self.current_directory, filename)
\* unless filename is absolute.
tool_path(directory, filename) == path_join(directory, filename)

\* The state of the tools and endpoints above when the server starts; the
\* command that run_command is going to be called with is one of `commands`.
ToolInit(commands) ==
    /\ cmd \in {[calls |-> 0, command |-> c, started |-> FALSE, result |-> "None"] :
                    c \in commands}
    /\ pv = [calls |-> 0, op |-> "None", filename |-> "None", old_code |-> <<"null">>,
             new_code |-> <<"null">>, content |-> <<"null">>, status |-> 0,
             original |-> <<>>, would_be |-> <<>>]
    /\ current_directories = [s \in {} |-> workspace_root]
    /\ current_directory = workspace_root
    /\ resolved = [calls |-> 0, op |-> "None", session_id |-> "None", arg |-> <<>>,
                   status |-> 0, path |-> <<>>]
    /\ parse = [lines |-> <<>>, full_response |-> <<>>]

----------------------------------------------------------------------------
(* The request threads: api_chat / process_user_message,                   *)
(* api_chat_stream / process_user_message_stream, handle_tool_call and     *)
(* api_execute_action, each a sequence of steps of one thread              *)

MaxLog == 3             \* no request starts once the log holds this many entries
MaxTime == 110          \* the clock is not advanced beyond this by Tick

\* The request threads of the server; two of them give every interleaving of
\* two concurrent requests.
Procs == {1, 2}

UserTexts == {"", "list files"}             \* message after .strip()
\* names handle_tool_call is given: every dangerous tool, a safe one, the one
\* whose result is a str, an unknown name and a missing one
ToolNameInputs ==
    dangerous_tools \cup {"list_files", "run_command", "nonexistent_tool", "None"}
\* names confirmed through api_execute_action: a dangerous tool, a safe one, the
\* one whose result is a str, an unknown name and a missing one
ExecNameInputs == {"write_file", "list_files", "run_command", "nonexistent_tool", "None"}
ExecArgInputs == {"args1", "None"}          \* data.get('args'): None when absent
ArgInputs == {"args1", "args2"}             \* argument mappings
ToolOutcomes == {"ok", "error", "raise"}    \* of function_to_call(**tool_args)
\* what the backend does for each model during one orchestrator call: the same
\* for all of them, or a raise for the first and 200 for the others
BackendBehaviours ==
    {[m \in ModelSet |-> o] : o \in Outcomes}
    \cup {[m \in ModelSet |-> IF m = active_model_list[1] THEN "raise" ELSE "200"]}
Durations == {0}                            \* seconds one backend request takes

NoModel == [response |-> NoneResponse, error |-> "None"]
NoRet == [kind |-> "none", status |-> 0, content |-> Str(<<>>),
          name |-> "None", args |-> "None"]
IdleReq == [op |-> "none", pc |-> "idle", base |-> 0, text |-> "",
            name |-> "None", args |-> "None", result |-> Str(<<>>),
            model |-> NoModel, ret |-> NoRet, steps |-> <<>>]

\* The thread returns `ret`. What the request was called with (name, args),
\* what its orchestrator call returned (model) and what it did (steps) stay
\* visible until the thread serves its next request.
Finished(r, ret, step) ==
    [r EXCEPT !.pc = "done", !.ret = ret, !.steps = Append(r.steps, step),
              !.text = "", !.result = Str(<<>>)]

\* Return values
Reply(content) == [kind |-> "reply", status |-> 200, content |-> content,
                   name |-> "None", args |-> "None"]
Error(status, text) == [kind |-> "error", status |-> status, content |-> Str(text),
                        name |-> "None", args |-> "None"]

\* handle_tool_call, lines 588-593
action_request(tool_name, tool_args) ==
    [kind |-> "action_request", status |-> 200, content |-> Str(<<>>),
     name |-> tool_name, args |-> tool_args]

\* Messages appended to assistant.messages
user_message(user_text) ==
    [role |-> "user", name |-> "None", content |-> Str(<<user_text>>)]
tool_message(tool_name, result) ==
    [role |-> "tool", name |-> tool_name, content |-> result]
assistant_message(content) ==
    [role |-> "assistant", name |-> "None", content |-> content]

\* What a tool function hands back when it does not raise.
tool_result(tool_name, o) ==
    IF tool_name = "run_command"
    THEN Str(<<IF o = "ok" THEN "Command executed successfully:" ELSE "Command failed:">>)
    ELSE Dict(<<IF o = "ok" THEN "success" ELSE "error">>)

SysInit ==
    /\ messages = <<system_message>>
    /\ msg_by = <<0>>
    /\ assistant_lock = 0
    /\ last_request_time = 0
    /\ req = [p \in Procs |-> IdleReq]
    /\ orch = NoOrch
    /\ files = [path \in FsPaths |-> Absent]
    /\ backups = {}
    /\ fs = NoFs
    /\ ToolInit({<<>>})

----------------------------------------------------------------------------
(* A CircuitBreaker driven by one caller: call is entered (CBCallBegin),   *)
(* the wrapped function runs while the clock may advance, and it returns   *)
(* (CBFuncReturn) or raises (CBFuncRaise).                                 *)

Results == {"r1", "r2"}

NoCall == [pre |-> CircuitBreaker_init(1, 1), t0 |-> 0, t1 |-> 0,
           trial |-> FALSE, outcome |-> "none", result |-> "None",
           returned |-> "None"]

InitCB ==
    /\ now = 0
    /\ \E T \in 1..MaxThreshold, R \in 1..MaxTimeout :
           circuit_breaker = CircuitBreaker_init(T, R)
    /\ cb_pc = "idle"
    /\ cb_calls = 0
    /\ cb_fails = 0
    /\ cb_last = NoCall
    /\ SysInit
    /\ api_key = TRUE

CBCallBegin ==
    /\ cb_pc = "idle"
    /\ cb_calls < MaxCalls
    /\ LET adm == cb_admit(circuit_breaker, now)
       IN  /\ circuit_breaker' = adm.cb
           /\ cb_last' = [pre |-> circuit_breaker, t0 |-> now, t1 |-> now,
                          trial |-> (adm.cb.state = "HALF_OPEN"),
                          outcome |-> IF adm.rejected THEN "rejected" ELSE "running",
                          result |-> "None", returned |-> "None"]
           /\ cb_pc' = IF adm.rejected THEN "idle" ELSE "in_func"
    /\ cb_calls' = cb_calls + 1
    /\ UNCHANGED <<now, cb_fails, sysvars>>

CBFuncReturn ==
    /\ cb_pc = "in_func"
    /\ \E r \in Results :
           cb_last' = [cb_last EXCEPT !.outcome = "returned", !.t1 = now,
                                      !.result = r, !.returned = cb_return(r)]
    /\ circuit_breaker' = cb_on_success(circuit_breaker)
    /\ cb_pc' = "idle"
    /\ UNCHANGED <<now, cb_calls, cb_fails, sysvars>>

CBFuncRaise ==
    /\ cb_pc = "in_func"
    /\ cb_last' = [cb_last EXCEPT !.outcome = "raised", !.t1 = now]
    /\ circuit_breaker' = cb_on_failure(circuit_breaker, now)
    /\ cb_fails' = cb_fails + 1
    /\ cb_pc' = "idle"
    /\ UNCHANGED <<now, cb_calls, sysvars>>

CBTick ==
    /\ now < MaxTimeCB
    /\ now' = now + 1
    /\ UNCHANGED <<cbvars, sysvars>>

NextCB == CBCallBegin \/ CBFuncReturn \/ CBFuncRaise \/ CBTick

SpecCB == InitCB /\ [][NextCB]_vars

----------------------------------------------------------------------------
(* Properties of the circuit breaker, checked under SpecCB *)

\* C7: a new breaker is CLOSED with failure_count 0; after k consecutive
\* failing calls with k below failure_threshold it is still CLOSED with
\* failure_count k; the failure that brings the count to failure_threshold
\* leaves it OPEN with failure_count equal to failure_threshold.
\* (cb_calls = cb_fails: every call so far ran the function and it raised.)
C7_TripsAtThreshold ==
    /\ cb_calls = 0 =>
          circuit_breaker.state = "CLOSED" /\ circuit_breaker.failure_count = 0
    /\ (cb_pc = "idle" /\ cb_fails = cb_calls) =>
          /\ cb_calls < circuit_breaker.failure_threshold =>
                /\ circuit_breaker.state = "CLOSED"
                /\ circuit_breaker.failure_count = cb_calls
          /\ cb_calls = circuit_breaker.failure_threshold =>
                /\ circuit_breaker.state = "OPEN"
                /\ circuit_breaker.failure_count = circuit_breaker.failure_threshold

C7_Witness ==
    /\ cb_pc = "idle"
    /\ cb_fails = cb_calls
    /\ cb_calls = circuit_breaker.failure_threshold
    /\ circuit_breaker.failure_threshold = 3
    /\ circuit_breaker.state = "OPEN"

\* The latest call found the breaker OPEN, and now - last_failure_time was
\* within / beyond recovery_timeout when it was made.
cb_last_open_within ==
    /\ cb_last.outcome # "none"
    /\ cb_last.pre.state = "OPEN"
    /\ cb_last.t0 - cb_last.pre.last_failure_time <= cb_last.pre.recovery_timeout

cb_last_open_beyond ==
    /\ cb_last.outcome # "none"
    /\ cb_last.pre.state = "OPEN"
    /\ cb_last.t0 - cb_last.pre.last_failure_time > cb_last.pre.recovery_timeout

\* C8: a call made while the breaker is OPEN and now - last_failure_time is at
\* most recovery_timeout is rejected with the circuit-open error, the wrapped
\* function is not invoked, and the breaker is left exactly as it was.
C8_OpenRejects ==
    cb_last_open_within =>
        /\ cb_last.outcome = "rejected"
        /\ cb_pc = "idle"
        /\ ~cb_last.trial
        /\ circuit_breaker = cb_last.pre

C8_Witness ==
    /\ cb_last_open_within
    /\ cb_last.outcome = "rejected"
    /\ cb_last.t0 - cb_last.pre.last_failure_time = cb_last.pre.recovery_timeout
    /\ cb_last.pre.last_failure_time > 0

\* C9: a call made while the breaker is OPEN and now - last_failure_time
\* exceeds recovery_timeout moves it to HALF_OPEN and invokes the wrapped
\* function as a trial; when the trial returns, the breaker is CLOSED with
\* failure_count 0 and the call returns the function's result.
C9_TrialSuccessCloses ==
    cb_last_open_beyond =>
        /\ cb_last.trial
        /\ cb_last.outcome \in {"running", "returned", "raised"}
        /\ cb_last.outcome = "running" =>
              /\ cb_pc = "in_func"
              /\ circuit_breaker = [cb_last.pre EXCEPT !.state = "HALF_OPEN"]
        /\ cb_last.outcome = "returned" =>
              /\ circuit_breaker.state = "CLOSED"
              /\ circuit_breaker.failure_count = 0
              /\ cb_last.returned = cb_last.result

C9_Witness ==
    /\ cb_last_open_beyond
    /\ cb_last.outcome = "returned"
    /\ cb_last.returned = "r2"
    /\ cb_last.pre.failure_count >= 2
    /\ circuit_breaker.state = "CLOSED"

\* C10: when the trial call made in HALF_OPEN fails, failure_count goes up by
\* one, the breaker is OPEN again and last_failure_time is the time of that
\* failure; the trial itself was admitted only after more than
\* recovery_timeout had passed since the failure before it.
C10_TrialFailureReopens ==
    (cb_last.trial /\ cb_last.outcome = "raised") =>
        /\ circuit_breaker.state = "OPEN"
        /\ circuit_breaker.failure_count = cb_last.pre.failure_count + 1
        /\ circuit_breaker.last_failure_time = cb_last.t1
        /\ cb_last.t0 - cb_last.pre.last_failure_time > cb_last.pre.recovery_timeout

C10_Witness ==
    /\ cb_last.trial
    /\ cb_last.outcome = "raised"
    /\ cb_last.t1 > cb_last.t0
    /\ circuit_breaker.state = "OPEN"
    /\ circuit_breaker.failure_count = circuit_breaker.failure_threshold + 1

----------------------------------------------------------------------------
(* Steps shared by the entry points *)

\* A log that takes a new entry at its front.
Prepend_message(p, m) ==
    /\ messages' = <<m>> \o messages
    /\ msg_by' = <<p>> \o msg_by

Append_message(p, m) ==
    /\ messages' = Append(messages, m)
    /\ msg_by' = Append(msg_by, p)

\* A thread, free or done with its previous request, enters an entry point.
Begin(p) ==
    /\ req[p].pc \in {"idle", "done"}
    /\ Len(messages) < MaxLog

\* An entry into the section that does not wait for it to be free.
Acquire_without_waiting(p, from, to) ==
    /\ req[p].pc = from
    /\ assistant_lock' = p
    /\ req' = [req EXCEPT ![p].pc = to, ![p].steps = Append(@, "acquire")]
    /\ UNCHANGED <<now, cbvars, messages, msg_by, last_request_time, api_key, auxvars>>

\* with assistant_lock: (entering)
Acquire(p, from, to) ==
    /\ req[p].pc = from
    /\ assistant_lock = 0
    /\ assistant_lock' = p
    /\ req' = [req EXCEPT ![p].pc = to, ![p].steps = Append(@, "acquire")]
    /\ UNCHANGED <<now, cbvars, messages, msg_by, last_request_time, api_key, auxvars>>

\* assistant._execute_model_call() called by thread p
CallModel(p, from, to, In) ==
    /\ req[p].pc = from
    /\ \E out \in In.backend, d \in Durations, s \in In.streams :
          LET r == execute_model_call(circuit_breaker, now, last_request_time,
                                      "None", api_key, out, d, s)
          IN  /\ now' = r.t
              /\ circuit_breaker' = r.cb
              /\ last_request_time' = r.last_request_time
              /\ req' = [req EXCEPT ![p].pc = to,
                                    ![p].model = [response |-> r.response, error |-> r.error],
                                    ![p].steps = Append(@, "model_call")]
    /\ UNCHANGED <<cb_pc, cb_calls, cb_fails, cb_last, messages, msg_by,
                   assistant_lock, api_key, auxvars>>

----------------------------------------------------------------------------
(* api_chat (511-520) and process_user_message (539-559) *)

\* A test that finds no field missing.
field_never_missing(value) == FALSE

\* `if not user_text` (516, 527) and `if not tool_name` (640): the field is
\* absent (None, or '' by default) or empty.
field_missing(value) == value \in {"", "None"}

ApiChat(p, In) ==
    /\ Begin(p)
    /\ \E user_text \in In.texts :
          req' = [req EXCEPT ![p] =
                    IF field_missing(user_text)
                    THEN [IdleReq EXCEPT !.op = "chat", !.pc = "done", !.base = Len(messages),
                                         !.ret = Error(400, <<"Empty message">>)]
                    ELSE [IdleReq EXCEPT !.op = "chat", !.pc = "pum_lock",
                                         !.base = Len(messages), !.text = user_text]]
    /\ UNCHANGED <<now, cbvars, messages, msg_by, assistant_lock, last_request_time, api_key, auxvars>>

PumAcquire(p) == Acquire(p, "pum_lock", "pum_user")

PumAppendUser(p) ==
    /\ req[p].pc = "pum_user"
    /\ Append_message(p, user_message(req[p].text))
    /\ req' = [req EXCEPT ![p].pc = "pum_model", ![p].steps = Append(@, "append_user")]
    /\ UNCHANGED <<now, cbvars, assistant_lock, last_request_time, api_key, auxvars>>

PumModel(p, In) == CallModel(p, "pum_model", "pum_reply", In)

\* lines 549-555: response is the tuple _execute_model_call returned
pum_response(model) == Tuple(model.response, model.error)

PumReply(p) ==
    /\ req[p].pc = "pum_reply"
    /\ Append_message(p, assistant_message(pum_response(req[p].model)))
    /\ req' = [req EXCEPT ![p] = Finished(@, Reply(pum_response(req[p].model)),
                                          "append_assistant")]
    /\ assistant_lock' = 0
    /\ UNCHANGED <<now, cbvars, last_request_time, api_key, auxvars>>

----------------------------------------------------------------------------
(* api_chat_stream (522-537) and process_user_message_stream (561-576) *)

ApiChatStream(p, In) ==
    /\ Begin(p)
    /\ \E user_text \in In.texts :
          req' = [req EXCEPT ![p] =
                    IF field_missing(user_text)
                    THEN [IdleReq EXCEPT !.op = "stream", !.pc = "done", !.base = Len(messages),
                                         !.ret = Error(400, <<"Empty message">>)]
                    ELSE [IdleReq EXCEPT !.op = "stream", !.pc = "pums_lock",
                                         !.base = Len(messages), !.text = user_text]]
    /\ UNCHANGED <<now, cbvars, messages, msg_by, assistant_lock, last_request_time, api_key, auxvars>>

\* The first next() of the generator enters the with block.
PumsAcquire(p) == Acquire(p, "pums_lock", "pums_user")

PumsAppendUser(p) ==
    /\ req[p].pc = "pums_user"
    /\ Append_message(p, user_message(req[p].text))
    /\ req' = [req EXCEPT ![p].pc = "pums_model", ![p].steps = Append(@, "append_user")]
    /\ UNCHANGED <<now, cbvars, assistant_lock, last_request_time, api_key, auxvars>>

\* line 571: EnhancedAIAssistant has no _execute_model_call_stream, the
\* AttributeError is caught at 573 and the error chunk is yielded at 576.
PumsYieldError(p) ==
    /\ req[p].pc = "pums_model"
    /\ req' = [req EXCEPT ![p].pc = "pums_yielded",
                          ![p].ret = Error(200, <<"Error processing message: ",
                                                  "no attribute _execute_model_call_stream">>),
                          ![p].steps = Append(@, "yield_error")]
    /\ UNCHANGED <<now, cbvars, messages, msg_by, assistant_lock, last_request_time, api_key, auxvars>>

\* The generator is resumed and ends, or is closed at its yield: either way
\* the with block is left.
PumsFinish(p) ==
    /\ req[p].pc = "pums_yielded"
    /\ req' = [req EXCEPT ![p] = Finished(@, req[p].ret, "release")]
    /\ assistant_lock' = 0
    /\ UNCHANGED <<now, cbvars, messages, msg_by, last_request_time, api_key, auxvars>>

----------------------------------------------------------------------------
(* handle_tool_call (578-631); it takes no lock *)

\* A gateway that puts insert_at_line among the tools it runs directly.
gateway_passing_insert(tool_name) ==
    IF tool_name \in dangerous_tools \ {"insert_at_line"} THEN "action_request"
    ELSE IF tool_name \notin available_functions THEN "not_found"
    ELSE "execute"

\* A gateway that asks for confirmation of run_command as well.
gateway_confirming_run_command(tool_name) ==
    IF tool_name \in dangerous_tools \cup {"run_command"} THEN "action_request"
    ELSE IF tool_name \notin available_functions THEN "not_found"
    ELSE "execute"

\* A gateway that runs every tool of the catalog directly.
gateway_confirming_nothing(tool_name) ==
    IF tool_name \notin available_functions THEN "not_found" ELSE "execute"

\* lines 585-598: the gateway's decision for a tool name
gateway(tool_name) ==
    IF tool_name \in dangerous_tools THEN "action_request"
    ELSE IF tool_name \notin available_functions THEN "not_found"
    ELSE "execute"

HandleToolCall(p, In) ==
    /\ Begin(p)
    /\ \E tool_name \in In.tool_names, tool_args \in In.tool_args, o \in In.tool_outcomes :
          LET r0 == [IdleReq EXCEPT !.op = "tool", !.base = Len(messages),
                                    !.name = tool_name, !.args = tool_args]
          IN  req' = [req EXCEPT ![p] =
                CASE gateway(tool_name) = "action_request" ->
                       Finished(r0, action_request(tool_name, tool_args), "return")
                  [] gateway(tool_name) = "not_found" ->
                       Finished(r0, Error(200, <<"Tool '", tool_name, "' not found.">>),
                                "return")
                  [] OTHER ->
                       \* line 601: result = function_to_call(**tool_args);
                       \* a raise goes to 629-631
                       IF o = "raise"
                       THEN Finished(r0, Error(200, <<"Error executing tool ", tool_name>>),
                                     "tool_call")
                       ELSE [r0 EXCEPT !.pc = "htc_append", !.args = "None",
                                       !.steps = <<"tool_call">>,
                                       !.result = tool_result(tool_name, o)]]
    /\ UNCHANGED <<now, cbvars, messages, msg_by, assistant_lock, last_request_time, api_key, auxvars>>

HtcAppend(p) ==
    /\ req[p].pc = "htc_append"
    /\ Append_message(p, tool_message(req[p].name, req[p].result))
    /\ req' = [req EXCEPT ![p].pc = "htc_model", ![p].steps = Append(@, "append_tool")]
    /\ UNCHANGED <<now, cbvars, assistant_lock, last_request_time, api_key, auxvars>>

HtcModel(p, In) == CallModel(p, "htc_model", "htc_reply", In)

\* lines 606-627
HtcReply(p) ==
    /\ req[p].pc = "htc_reply"
    /\ IF req[p].model.error # "None"
       THEN /\ req' = [req EXCEPT ![p] = Finished(@, Error(200, <<req[p].model.error>>),
                                                  "return")]
            /\ UNCHANGED <<messages, msg_by>>
       ELSE LET full_response == full_response_of(req[p].model.response)
            IN  /\ Append_message(p, assistant_message(Str(full_response)))
                /\ req' = [req EXCEPT ![p] = Finished(@, Reply(Str(full_response)),
                                                      "append_assistant")]
    /\ UNCHANGED <<now, cbvars, assistant_lock, last_request_time, api_key, auxvars>>

----------------------------------------------------------------------------
(* api_execute_action (633-681) *)

ApiExecuteAction(p, In) ==
    /\ Begin(p)
    /\ \E tool_name \in In.exec_names, tool_args \in In.exec_args :
          req' = [req EXCEPT ![p] =
                    IF field_missing(tool_name)
                    THEN [IdleReq EXCEPT !.op = "exec", !.pc = "done", !.base = Len(messages),
                                         !.ret = Error(400, <<"Missing tool name">>)]
                    ELSE [IdleReq EXCEPT !.op = "exec", !.pc = "ea_lock", !.base = Len(messages),
                                         !.name = tool_name, !.args = tool_args]]
    /\ UNCHANGED <<now, cbvars, messages, msg_by, assistant_lock, last_request_time, api_key, auxvars>>

EaAcquire(p) == Acquire(p, "ea_lock", "ea_call")

\* lines 647-654; **tool_args raises when args is None
EaCall(p, In) ==
    /\ req[p].pc = "ea_call"
    /\ IF req[p].name \notin available_functions
       THEN req' = [req EXCEPT ![p].pc = "ea_append", ![p].args = "None",
                       ![p].result = Str(<<"Error: Tool '", req[p].name, "' not found.">>)]
       ELSE \E o \in In.tool_outcomes :
              /\ req[p].args = "None" => o = "raise"
              /\ req' = [req EXCEPT ![p].pc = "ea_append", ![p].args = "None",
                            ![p].steps = Append(@, "tool_call"),
                            ![p].result =
                                IF o = "raise"
                                THEN Str(<<"Error executing tool ", req[p].name>>)
                                ELSE tool_result(req[p].name, o)]
    /\ UNCHANGED <<now, cbvars, messages, msg_by, assistant_lock, last_request_time, api_key, auxvars>>

\* line 656
EaAppend(p) ==
    /\ req[p].pc = "ea_append"
    /\ Append_message(p, tool_message(req[p].name, req[p].result))
    /\ req' = [req EXCEPT ![p].pc = "ea_model", ![p].steps = Append(@, "append_tool")]
    /\ UNCHANGED <<now, cbvars, assistant_lock, last_request_time, api_key, auxvars>>

EaModel(p, In) == CallModel(p, "ea_model", "ea_reply", In)

\* lines 660-681; leaving the with block releases the lock
EaReply(p) ==
    /\ req[p].pc = "ea_reply"
    /\ IF req[p].model.error # "None"
       THEN /\ req' = [req EXCEPT ![p] = Finished(@, Error(200, <<req[p].model.error>>),
                                                  "return")]
            /\ UNCHANGED <<messages, msg_by>>
       ELSE LET full_response == full_response_of(req[p].model.response)
            IN  /\ Append_message(p, assistant_message(Str(full_response)))
                /\ req' = [req EXCEPT ![p] = Finished(@, Reply(Str(full_response)),
                                                      "append_assistant")]
    /\ assistant_lock' = 0
    /\ UNCHANGED <<now, cbvars, last_request_time, api_key, auxvars>>

----------------------------------------------------------------------------

Init ==
    /\ now = request_interval
    /\ circuit_breaker = CircuitBreaker_init(DEFAULT_FAILURE_THRESHOLD, DEFAULT_RECOVERY_TIMEOUT)
    /\ cb_pc = "idle"
    /\ cb_calls = 0
    /\ cb_fails = 0
    /\ cb_last = NoCall
    /\ SysInit
    /\ api_key \in BOOLEAN

\* More than recovery_timeout passes between two steps.
Tick ==
    /\ now + DEFAULT_RECOVERY_TIMEOUT + 1 <= MaxTime
    /\ now' = now + DEFAULT_RECOVERY_TIMEOUT + 1
    /\ UNCHANGED <<cbvars, sysvars>>

\* The inputs of the one-thread specification
Inputs ==
    [texts |-> UserTexts, backend |-> BackendBehaviours, streams |-> Streams,
     tool_names |-> ToolNameInputs, tool_args |-> ArgInputs,
     tool_outcomes |-> ToolOutcomes,
     exec_names |-> ExecNameInputs, exec_args |-> ExecArgInputs]

\* The inputs of the two-thread specification: one of each kind that takes
\* the request into the exclusive section, and the 400 of api_execute_action
InputsMT ==
    [texts |-> {"list files"}, streams |-> {"s1"},
     backend |-> {[m \in ModelSet |-> o] : o \in {"200", "raise"}},
     tool_outcomes |-> {"ok", "raise"},
     exec_names |-> {"write_file", "nonexistent_tool", "None"}, exec_args |-> {"args1"}]

\* One step of thread p in process_user_message / process_user_message_stream /
\* api_execute_action, the entry points that enter assistant_lock
LockedStep(p, In) ==
    \/ ApiChat(p, In) \/ PumAcquire(p) \/ PumAppendUser(p) \/ PumModel(p, In) \/ PumReply(p)
    \/ ApiChatStream(p, In) \/ PumsAcquire(p) \/ PumsAppendUser(p)
    \/ PumsYieldError(p) \/ PumsFinish(p)
    \/ ApiExecuteAction(p, In) \/ EaAcquire(p) \/ EaCall(p, In) \/ EaAppend(p)
    \/ EaModel(p, In) \/ EaReply(p)

\* One step of thread p in handle_tool_call
GatewayStep(p, In) ==
    \/ HandleToolCall(p, In) \/ HtcAppend(p) \/ HtcModel(p, In) \/ HtcReply(p)

\* One thread serving one request after another through the four entry points
Next == LockedStep(1, Inputs) \/ GatewayStep(1, Inputs) \/ Tick

Spec == Init /\ [][Next]_vars

\* Two threads serving concurrent requests through the locking entry points
NextMT == (\E p \in Procs : LockedStep(p, InputsMT)) \/ Tick

SpecMT == Init /\ [][NextMT]_vars

----------------------------------------------------------------------------
(* Properties of the entry points *)

\* The messages thread p has appended in its current (or just finished)
\* request, in log order, and their roles.
own_messages(p) ==
    LET idx == SelectSeq([i \in 1..Len(messages) |-> i],
                         LAMBDA i : i > req[p].base /\ msg_by[i] = p)
    IN  [k \in 1..Len(idx) |-> messages[idx[k]]]

roles(ms) == [k \in 1..Len(ms) |-> ms[k].role]

\* The orchestrator was called in p's request and returned an error / a response.
orchestrator_failed(p) ==
    /\ \E k \in 1..Len(req[p].steps) : req[p].steps[k] = "model_call"
    /\ req[p].model.error # "None"

orchestrator_succeeded(p) ==
    /\ \E k \in 1..Len(req[p].steps) : req[p].steps[k] = "model_call"
    /\ req[p].model.error = "None"

\* The text a reader of stream s must end up with.
expected_text(s) ==
    IF s = "s1" THEN <<"Here", "you go">>
    ELSE <<"fence json", "tool_call list_files", "fence">>

\* C1: for each of write_file, delete_file, create_directory, replace_code,
\* insert_at_line and any arguments, handle_tool_call returns an
\* action_request with exactly that name and those arguments; it calls no
\* tool function, appends nothing to the log and makes no model call.
C1_DangerousToolsGated ==
    \A p \in Procs :
        (/\ req[p].op = "tool"
         /\ req[p].name \in {"write_file", "delete_file", "create_directory",
                             "replace_code", "insert_at_line"}) =>
            /\ req[p].pc = "done"
            /\ req[p].ret.kind = "action_request"
            /\ req[p].ret.name = req[p].name
            /\ req[p].ret.args = req[p].args
            /\ req[p].steps = <<"return">>
            /\ req[p].model = NoModel
            /\ own_messages(p) = <<>>
            /\ Len(messages) = req[p].base

C1_Witness ==
    /\ req[1].op = "tool"
    /\ req[1].pc = "done"
    /\ req[1].ret.kind = "action_request"
    /\ req[1].ret.name = "insert_at_line"
    /\ req[1].ret.args = "args2"
    /\ Len(messages) >= 2

C3_SafeToolTurn ==
    \A p \in Procs :
        (/\ req[p].op = "chat"
         /\ req[p].pc = "done"
         /\ orchestrator_succeeded(p)
         /\ req[p].model.response.stream = "s2") =>
            LET own == own_messages(p)
            IN  /\ roles(own) = <<"user", "tool", "assistant">>
                /\ own[2].name = "list_files"
                /\ req[p].ret.kind = "reply"
                /\ req[p].ret.content = own[3].content

\* C4: when the orchestrator fails in a process_user_message turn, the log
\* after the turn is the log before it plus the one user message.
C4_FailedTurnAddsOnlyUser ==
    \A p \in Procs :
        (req[p].op = "chat" /\ req[p].pc = "done" /\ orchestrator_failed(p)) =>
            /\ roles(own_messages(p)) = <<"user">>
            /\ Len(messages) = req[p].base + 1

\* C5: when the orchestrator fails, process_user_message and
\* api_execute_action return an error for the turn, never a reply.
C5_FailureReturnsError ==
    \A p \in Procs :
        (/\ req[p].op \in {"chat", "exec"}
         /\ req[p].pc = "done"
         /\ orchestrator_failed(p)) =>
            req[p].ret.kind = "error"

\* C15: the conversation log is append-only: whatever process_user_message,
\* process_user_message_stream, handle_tool_call and api_execute_action do,
\* the log before a step is a prefix of the log after it, and the first
\* entry is the system message.
C15_AppendOnly ==
    [][/\ Len(messages') >= Len(messages)
       /\ SubSeq(messages', 1, Len(messages)) = messages
       /\ messages'[1] = system_message]_vars

C15_Witness ==
    /\ Len(messages) >= 4
    /\ messages[1] = system_message
    /\ \E i, j \in 2..Len(messages) : messages[i].role = "user" /\ messages[j].role = "tool"

\* The gateway failed to execute the tool of p's request: the name is not in
\* the catalogue, or the tool raised, or it returned an error.
gateway_failure(p) ==
    \/ /\ req[p].op = "tool"
       /\ req[p].name \notin {"list_files", "read_file", "write_file", "delete_file",
                              "insert_at_line", "replace_code", "create_directory",
                              "search_files", "run_command"}
    \/ /\ req[p].op = "tool"
       /\ req[p].steps = <<"tool_call">>
       /\ req[p].ret.kind = "error"
    \/ /\ req[p].name # "None"
       /\ \E k \in 1..Len(own_messages(p)) :
             own_messages(p)[k].role = "tool"
             /\ own_messages(p)[k].content.text[1] \in
                   {"Error: Tool '", "Error executing tool ", "error", "Command failed:"}

\* C16: every tool-execution failure at the gateway (unknown name, tool
\* raising, tool returning an error), in handle_tool_call and in
\* api_execute_action, ends the turn without an exception and with the
\* failure text appended to the log as a tool message.
C16_FailureBecomesToolMessage ==
    \A p \in Procs :
        (req[p].op \in {"tool", "exec"} /\ req[p].pc = "done" /\ gateway_failure(p)) =>
            LET own == own_messages(p)
            IN  /\ Len(own) >= 1
                /\ own[1].role = "tool"
                /\ own[1].name = req[p].name

\* Thread p is inside the exclusive section / waits to enter it / has a model
\* call or a tool execution as its next step.
in_section(p) ==
    req[p].pc \in {"pum_user", "pum_model", "pum_reply",
                   "pums_user", "pums_model", "pums_yielded",
                   "ea_call", "ea_append", "ea_model", "ea_reply"}

waits_for_section(p) == req[p].pc \in {"pum_lock", "pums_lock", "ea_lock"}

in_flight(p) == req[p].pc \in {"pum_model", "pums_model", "ea_call", "ea_model"}

\* C6: whatever the interleaving of process_user_message,
\* process_user_message_stream and api_execute_action requests, at most one
\* of them is inside assistant_lock, so at most one model call or tool
\* execution is in flight, and the messages one turn appends are contiguous
\* in the log.
C6_ExclusiveSection ==
    /\ \A p, q \in Procs : (in_section(p) /\ in_section(q)) => p = q
    /\ \A p \in Procs : in_section(p) => assistant_lock = p
    /\ \A p, q \in Procs : (in_flight(p) /\ in_flight(q)) => p = q
    /\ \A p \in Procs :
          \A i, j, k \in 1..Len(messages) :
              (/\ req[p].base < i /\ i < j /\ j < k
               /\ msg_by[i] = p /\ msg_by[k] = p) => msg_by[j] = p

C6_Witness ==
    \E p, q \in Procs :
        /\ p # q
        /\ in_section(p)
        /\ waits_for_section(q)
        /\ Len(own_messages(p)) >= 1
        /\ \E i \in 1..Len(messages) : msg_by[i] = q

----------------------------------------------------------------------------
(* _execute_model_call on its own: one caller making one orchestrator call *)
(* after another, with any preferred model and any backend behaviour       *)

MaxOrchCalls == 2       \* orchestrator calls per behaviour

\* a preferred model that is not one of the configured candidates
OtherModel == "openrouter/other-model"
PreferredInputs == {"None", active_model_list[2], OtherModel}
Candidates == ModelSet \cup {OtherModel}
\* What requests.post does for each candidate during one call: every
\* combination for the configured models; OtherModel raises or answers 200
\* when it is the preferred one (it is not requested otherwise).
OrchInputs ==
    {in \in [model_name : PreferredInputs, out : [Candidates -> Outcomes]] :
        /\ in.out[OtherModel] # "500"
        /\ in.model_name # OtherModel => in.out[OtherModel] = "raise"}
OrchDurations == {0, 5}                     \* seconds one backend request takes
OrchPauses == {0, 61}                       \* seconds between two calls

InitOrch ==
    /\ now = request_interval
    /\ circuit_breaker = CircuitBreaker_init(DEFAULT_FAILURE_THRESHOLD, DEFAULT_RECOVERY_TIMEOUT)
    /\ cb_pc = "idle"
    /\ cb_calls = 0
    /\ cb_fails = 0
    /\ cb_last = NoCall
    /\ SysInit
    /\ api_key \in BOOLEAN

\* The caller lets `pause` seconds pass, then calls _execute_model_call.
OrchCall ==
    /\ orch.calls < MaxOrchCalls
    /\ \E in \in OrchInputs, d \in OrchDurations, pause \in OrchPauses :
          LET t == now + pause
              r == execute_model_call(circuit_breaker, t, last_request_time,
                                      in.model_name, api_key, in.out, d, "s1")
          IN  /\ orch.calls = 0 => pause = 0
              /\ now' = r.t
              /\ circuit_breaker' = r.cb
              /\ last_request_time' = r.last_request_time
              /\ orch' = [calls |-> orch.calls + 1, model_name |-> in.model_name,
                          called_at |-> t, prev_last |-> last_request_time,
                          attempts |-> r.attempts, response |-> r.response,
                          error |-> r.error]
    /\ UNCHANGED <<cb_pc, cb_calls, cb_fails, cb_last, messages, msg_by,
                   assistant_lock, req, api_key, files, backups, fs, toolvars>>

NextOrch == OrchCall

SpecOrch == InitOrch /\ [][NextOrch]_vars

----------------------------------------------------------------------------
(* Properties of the orchestrator, checked under SpecOrch *)

\* The order in which the candidates are to be tried for a preferred model.
expected_try_order(model_name) ==
    CASE model_name = "None" ->
           <<"openrouter/horizon-beta", "openrouter/anthropic/claude-3.5-sonnet",
             "openrouter/meta-llama/llama-3.1-8b-instruct">>
      [] model_name = "openrouter/anthropic/claude-3.5-sonnet" ->
           <<"openrouter/anthropic/claude-3.5-sonnet", "openrouter/horizon-beta",
             "openrouter/meta-llama/llama-3.1-8b-instruct">>
      [] OTHER ->
           <<model_name, "openrouter/horizon-beta",
             "openrouter/anthropic/claude-3.5-sonnet",
             "openrouter/meta-llama/llama-3.1-8b-instruct">>

\* The candidates the latest call tried, and the requests it sent to the backend.
orch_tried == [k \in 1..Len(orch.attempts) |-> orch.attempts[k].model]
orch_requests == SelectSeq(orch.attempts, LAMBDA a : a.how # "rejected")

\* C11: within one orchestrator call a preferred model, when given, is tried
\* first and the remaining configured candidates follow in configured order,
\* each at most once; without a preferred model the candidates are tried in
\* configured order. The call stops early only at a 200.
C11_FailoverOrder ==
    (orch.calls > 0 /\ api_key) =>
        LET order == expected_try_order(orch.model_name)
            n == Len(orch.attempts)
        IN  /\ n >= 1 /\ n <= Len(order)
            /\ orch_tried = SubSeq(order, 1, n)
            /\ \A i, j \in 1..n : orch_tried[i] = orch_tried[j] => i = j
            /\ n < Len(order) => orch.attempts[n].how = "200"

C11_Witness ==
    /\ orch.calls > 0
    /\ api_key
    /\ orch.model_name = "openrouter/anthropic/claude-3.5-sonnet"
    /\ Len(orch_requests) = 3
    /\ orch_tried[1] = "openrouter/anthropic/claude-3.5-sonnet"
    /\ orch_tried[3] = "openrouter/meta-llama/llama-3.1-8b-instruct"

\* C12: with the credential present, an orchestrator call returns the
\* response of the first candidate in try order whose request returns 200
\* and tries no candidate after it; it returns 'All models failed' exactly
\* when no candidate's attempt returned 200 (each raised, the breaker's
\* refusal included, or returned another status); no candidate is requested
\* more than once.
C12_FirstSuccessOrAllFailed ==
    (orch.calls > 0 /\ api_key) =>
        LET n == Len(orch.attempts)
            none200 == \A k \in 1..n : orch.attempts[k].how # "200"
        IN  /\ orch.error \in {"None", "All models failed"}
            /\ orch.error = "None" =>
                  /\ orch.attempts[n].how = "200"
                  /\ orch.response.status_code = 200
                  /\ \A k \in 1..(n - 1) : orch.attempts[k].how # "200"
            /\ orch.error = "All models failed" <=>
                  (none200 /\ n = Len(expected_try_order(orch.model_name)))
            /\ orch.error = "All models failed" => orch.response = NoneResponse
            /\ Len(orch_requests) <= Len(expected_try_order(orch.model_name))

C12_Witness ==
    /\ orch.calls > 0
    /\ api_key
    /\ orch.error = "None"
    /\ Len(orch.attempts) = 3
    /\ orch.attempts[1].how = "raise"
    /\ orch.attempts[2].how = "500"
    /\ orch.attempts[3].how = "200"

\* C13: of two consecutive _execute_model_call calls on one assistant, the
\* second records a last_request_time at least request_interval later than
\* the first.
C13_CallStartsSpaced ==
    orch.calls >= 2 => last_request_time >= orch.prev_last + request_interval

C13_Witness ==
    /\ orch.calls >= 2
    /\ orch.called_at < last_request_time
    /\ orch.called_at > orch.prev_last
    /\ last_request_time = orch.prev_last + request_interval

\* C14: any two consecutive requests to the backend, failover attempts to
\* different models inside one orchestrator call included, start at least
\* request_interval apart.
C14_RequestsSpaced ==
    \A k \in 2..Len(orch_requests) :
        orch_requests[k].at - orch_requests[k - 1].at >= request_interval

----------------------------------------------------------------------------
(* The file tools called one after another on a small file system *)

MaxFsCalls == 2         \* tool calls per behaviour
MaxTimeFS == 1          \* the clock (whole seconds) stops advancing here

FsContents ==
    {<<>>, <<"a", "b", "a", "b">>, <<"a", "a", "a">>,
     <<"a", "\n", "b", "\n">>, <<" ", "a", "\n", "b">>}
WriteContents == {<<>>, <<"b">>}            \* write_file content
InsertCodes == {<<"c">>}                    \* insert_at_line code_to_insert
LineNumbers == {0, 1, 3, 4}                 \* insert_at_line line_number
OldCodes == {<<>>, <<"a">>, <<"a", "b">>, <<"a", "a">>, <<"c">>, <<" ", "a">>}
NewCodes == {<<"c">>, <<"a", "a">>}

InitFS ==
    /\ now = 0
    /\ circuit_breaker = CircuitBreaker_init(DEFAULT_FAILURE_THRESHOLD, DEFAULT_RECOVERY_TIMEOUT)
    /\ cb_pc = "idle"
    /\ cb_calls = 0
    /\ cb_fails = 0
    /\ cb_last = NoCall
    /\ messages = <<system_message>>
    /\ msg_by = <<0>>
    /\ assistant_lock = 0
    /\ last_request_time = 0
    /\ req = [p \in Procs |-> IdleReq]
    /\ api_key = TRUE
    /\ orch = NoOrch
    /\ \E c \in FsContents, present \in BOOLEAN :
          files = [path \in FsPaths |->
                      IF path = "a/x" THEN (IF present THEN File(c) ELSE Absent)
                      ELSE File(<<"b">>)]
    /\ backups = {}
    /\ fs = NoFs
    /\ ToolInit({<<>>})

\* The tool is entered with its arguments. write_file and delete_file test
\* os.path.exists before the backup; insert_at_line and replace_code open the
\* file for reading first, which raises when it is missing.
FsBegin(call) ==
    /\ fs.pc \in {"idle", "done"}
    /\ fs.calls < MaxFsCalls
    /\ fs' = [call EXCEPT
                !.calls = fs.calls + 1,
                !.pre = files[call.path],
                !.pc = IF files[call.path].exists THEN "backup"
                       ELSE IF call.tool \in {"write_file", "delete_file"} THEN "mutate"
                       ELSE "done",
                !.result = IF ~files[call.path].exists
                              /\ call.tool \in {"insert_at_line", "replace_code"}
                           THEN "error" ELSE "None"]
    /\ UNCHANGED <<now, cbvars, messages, msg_by, assistant_lock, last_request_time,
                   req, api_key, orch, files, backups, toolvars>>

write_file ==
    \E path \in FsPaths, content \in WriteContents :
        FsBegin([NoFs EXCEPT !.tool = "write_file", !.path = path, !.content = content])

delete_file ==
    \E path \in FsPaths :
        FsBegin([NoFs EXCEPT !.tool = "delete_file", !.path = path])

insert_at_line ==
    \E path \in FsPaths, code \in InsertCodes, line_number \in LineNumbers :
        FsBegin([NoFs EXCEPT !.tool = "insert_at_line", !.path = path,
                             !.code_to_insert = code, !.line_number = line_number])

replace_code ==
    \E path \in FsPaths, old \in OldCodes, new \in NewCodes :
        FsBegin([NoFs EXCEPT !.tool = "replace_code", !.path = path,
                             !.old_code = old, !.new_code = new])

\* The backup record is written, or writing it raises and the tool returns
\* {"error": ...} from its except branch.
FsBackup ==
    /\ fs.pc = "backup"
    /\ \E ok \in BOOLEAN :
          IF ok
          THEN /\ backups' = write_backup(backups, fs.path, now, files[fs.path].content)
               /\ fs' = [fs EXCEPT !.pc = "mutate", !.backup = backup_name(fs.path, now)]
          ELSE /\ backups' = backups
               /\ fs' = [fs EXCEPT !.pc = "done", !.result = "error",
                                   !.backup = <<"failed", now>>]
    /\ UNCHANGED <<now, cbvars, messages, msg_by, assistant_lock, last_request_time,
                   req, api_key, orch, files, toolvars>>

\* The file is written or removed; os.remove of a missing file raises.
FsMutate ==
    /\ fs.pc = "mutate"
    /\ IF fs.tool = "delete_file" /\ ~files[fs.path].exists
       THEN /\ files' = files
            /\ fs' = [fs EXCEPT !.pc = "done", !.result = "error"]
       ELSE /\ files' = [files EXCEPT ![fs.path] = mutated(fs, files[fs.path].content)]
            /\ fs' = [fs EXCEPT !.pc = "done", !.result = "success"]
    /\ UNCHANGED <<now, cbvars, messages, msg_by, assistant_lock, last_request_time,
                   req, api_key, orch, backups, toolvars>>

FsTick ==
    /\ now < MaxTimeFS
    /\ now' = now + 1
    /\ UNCHANGED <<cbvars, sysvars>>

NextFS ==
    write_file \/ delete_file \/ insert_at_line \/ replace_code
    \/ FsBackup \/ FsMutate \/ FsTick

SpecFS == InitFS /\ [][NextFS]_vars

----------------------------------------------------------------------------
(* Properties of the file tools, checked under SpecFS *)

\* The latest tool call wrote (did not fail to write) its backup record.
fs_backup_written == fs.backup[1] \notin {"None", "failed"}
fs_backup_failed == fs.backup[1] = "failed"

\* C17: when write_file, delete_file, insert_at_line or replace_code is
\* applied to an existing file, a backup record holding the file's content
\* from just before the call is in the Backup Store before the file is
\* changed or removed.
C17_BackupBeforeMutation ==
    /\ fs.pc = "mutate" /\ fs.pre.exists =>
          /\ files[fs.path] = fs.pre
          /\ fs.backup[1] = "x"
          /\ [name |-> fs.backup, content |-> fs.pre.content] \in backups
    /\ (/\ fs.tool \in {"write_file", "delete_file", "insert_at_line", "replace_code"}
        /\ fs.pre.exists
        /\ files[fs.path] # fs.pre) =>
          /\ fs.pc = "done"
          /\ \E b \in backups : b.name = fs.backup /\ b.content = fs.pre.content

C17_Witness ==
    /\ fs.pc = "done"
    /\ fs.tool = "insert_at_line"
    /\ fs.pre = File(<<" ", "a", "\n", "b">>)
    /\ files[fs.path] # fs.pre
    /\ [name |-> <<"x", 1>>, content |-> <<" ", "a", "\n", "b">>] \in backups

\* C18: when writing the backup record fails for write_file, delete_file,
\* insert_at_line or replace_code on an existing file, the tool still
\* performs the requested mutation of the file.
C18_BackupFailureDoesNotBlock ==
    (fs.pc = "done" /\ fs.pre.exists /\ fs_backup_failed) =>
        /\ fs.result = "success"
        /\ fs.tool = "write_file" => files[fs.path] = File(fs.content)
        /\ fs.tool = "delete_file" => ~files[fs.path].exists
        /\ fs.tool \in {"insert_at_line", "replace_code"} =>
              files[fs.path] = mutated(fs, fs.pre.content)

\* old occurs in text as a contiguous run of characters.
is_substring(old, text) ==
    \E i \in 1..(Len(text) + 1) :
        /\ i + Len(old) - 1 <= Len(text)
        /\ SubSeq(text, i, i + Len(old) - 1) = old

\* C19: replace_code with an old_code that is not a substring of the file's
\* content returns the 'not found' error and leaves the file unmodified.
C19_AbsentOldCodeIsAnError ==
    (/\ fs.pc = "done"
     /\ fs.tool = "replace_code"
     /\ fs.pre.exists
     /\ ~is_substring(fs.old_code, fs.pre.content)) =>
        /\ fs.result = "error"
        /\ files[fs.path] = fs.pre

\* The start positions of the occurrences of old in text, taken from the
\* left without overlap, from position i on.
RECURSIVE occurrences(_, _, _)
occurrences(text, old, i) ==
    IF i + Len(old) - 1 > Len(text) THEN {}
    ELSE IF SubSeq(text, i, i + Len(old) - 1) = old
         THEN {i} \cup occurrences(text, old, i + Len(old))
         ELSE occurrences(text, old, i + 1)

\* text with new in place of the Len(old) characters at each position of at.
RECURSIVE substituted(_, _, _, _, _)
substituted(text, at, old, new, i) ==
    IF i > Len(text) THEN <<>>
    ELSE IF i \in at THEN new \o substituted(text, at, old, new, i + Len(old))
    ELSE <<text[i]>> \o substituted(text, at, old, new, i + 1)

\* C20: after a successful replace_code on a file in which old_code occurs
\* n >= 1 times (non-overlapping), the file has new_code at each of the n
\* positions and the text outside them is unchanged.
C20_ReplacesEveryOccurrence ==
    (/\ fs.pc = "done"
     /\ fs.tool = "replace_code"
     /\ fs.result = "success"
     /\ fs.old_code # <<>>
     /\ is_substring(fs.old_code, fs.pre.content)) =>
        LET at == occurrences(fs.pre.content, fs.old_code, 1)
            n == Cardinality(at)
        IN  /\ n >= 1
            /\ files[fs.path].exists
            /\ files[fs.path].content =
                  substituted(fs.pre.content, at, fs.old_code, fs.new_code, 1)
            /\ Len(files[fs.path].content) =
                  Len(fs.pre.content) + n * (Len(fs.new_code) - Len(fs.old_code))

C20_Witness ==
    /\ fs.pc = "done"
    /\ fs.tool = "replace_code"
    /\ fs.result = "success"
    /\ fs.pre.content = <<"a", "b", "a", "b">>
    /\ fs.old_code = <<"a", "b">>
    /\ fs.new_code = <<"c">>
    /\ files[fs.path].content = <<"c", "c">>

\* C21: insert_at_line on a file of n lines accepts exactly the line numbers
\* 1..n+1: an accepted line number puts the block at that line (line 1 first,
\* line n+1 at the end) with the existing lines shifted down, and line 0 or a
\* line greater than n+1 fails with an error and leaves the file unchanged.
C21_LineNumberBounds ==
    (/\ fs.pc = "done"
     /\ fs.tool = "insert_at_line"
     /\ fs.pre.exists
     /\ fs_backup_written) =>
        LET lines == readlines(fs.pre.content)
            n == Len(lines)
            block == Append(fs.code_to_insert, "\n")
        IN  IF fs.line_number \in 1..(n + 1)
            THEN /\ fs.result = "success"
                 /\ files[fs.path] =
                       File(writelines(SubSeq(lines, 1, fs.line_number - 1)
                                       \o <<block>>
                                       \o SubSeq(lines, fs.line_number, n)))
            ELSE /\ fs.result = "error"
                 /\ files[fs.path] = fs.pre

----------------------------------------------------------------------------
(* run_command called, MaxCmdCalls times, with each command of up to        *)
(* MaxCmdLen characters                                                     *)

\* Everything but the state of the tools and endpoints of this part.
corevars == <<now, cbvars, messages, msg_by, assistant_lock, last_request_time,
              req, api_key, orch, files, backups, fs>>

CmdChars == {"l", "s", "L", "g", "i", "t", "r", "m", " "}
Commands == UNION {[1..n -> CmdChars] : n \in 0..MaxCmdLen}
\* subprocess.run: return code 0, another return code, or it raises
ProcessOutcomes == {"0", "1", "raise"}

InitTools(commands) ==
    /\ now = 0
    /\ circuit_breaker = CircuitBreaker_init(DEFAULT_FAILURE_THRESHOLD, DEFAULT_RECOVERY_TIMEOUT)
    /\ cb_pc = "idle"
    /\ cb_calls = 0
    /\ cb_fails = 0
    /\ cb_last = NoCall
    /\ messages = <<system_message>>
    /\ msg_by = <<0>>
    /\ assistant_lock = 0
    /\ last_request_time = 0
    /\ req = [p \in Procs |-> IdleReq]
    /\ api_key = TRUE
    /\ orch = NoOrch
    /\ fs = NoFs
    /\ files = [path \in FsPaths |-> Absent]
    /\ backups = {}
    /\ ToolInit(commands)

\* run_command(cmd.command). When subprocess.run raises, the process may or
\* may not have been started.
run_command ==
    /\ cmd.calls < MaxCmdCalls
    /\ \E outcome \in ProcessOutcomes, started \in BOOLEAN :
          /\ outcome # "raise" => started
          /\ cmd' = IF ~command_allowed(cmd.command)
                    THEN [cmd EXCEPT !.calls = @ + 1, !.started = FALSE,
                                     !.result = "Error: Command not allowed for security reasons."]
                    ELSE [cmd EXCEPT
                            !.calls = @ + 1, !.started = started,
                            !.result = CASE outcome = "0" -> "Command executed successfully:"
                                         [] outcome = "1" -> "Command failed:"
                                         [] OTHER -> "Error executing command: "]
    /\ UNCHANGED <<corevars, pv, current_directories, current_directory, resolved, parse>>

NextCmd == run_command

SpecCmd == InitTools(Commands) /\ [][NextCmd]_vars

----------------------------------------------------------------------------
(* The preview endpoints called on the file systems of InitFS               *)

MaxPvCalls == 2         \* preview requests per behaviour

\* data.get('filename'), data.get('old_code', ''), data.get('new_code', ''),
\* data.get('content', ''): "None" is a missing filename, and <<"null">> a
\* JSON null in the place of a text.
PvFilenames == FsPaths \cup {"None"}
PvCodes == {<<"a">>, <<"c">>, <<"null">>}

api_preview_replace_diff ==
    /\ pv.calls < MaxPvCalls
    /\ \E filename \in PvFilenames, old_code \in PvCodes, new_code \in PvCodes :
          LET valid == filename # "None" /\ old_code # <<"null">> /\ new_code # <<"null">>
              found == valid /\ files[filename].exists
              original == IF found THEN files[filename].content ELSE <<>>
          IN  /\ files' = IF valid THEN open_for_reading(files, filename) ELSE files
              /\ pv' = [calls |-> pv.calls + 1, op |-> "preview_replace",
                        filename |-> filename, old_code |-> old_code,
                        new_code |-> new_code, content |-> <<"null">>,
                        status |-> IF ~valid THEN 400 ELSE IF ~found THEN 404 ELSE 200,
                        original |-> original,
                        would_be |-> IF found THEN str_replace(original, old_code, new_code)
                                     ELSE <<>>]
    /\ UNCHANGED <<now, cbvars, messages, msg_by, assistant_lock, last_request_time,
                   req, api_key, orch, backups, fs, cmd, current_directories,
                   current_directory, resolved, parse>>

api_preview_write_diff ==
    /\ pv.calls < MaxPvCalls
    /\ \E filename \in PvFilenames, content \in WriteContents \cup {<<"null">>} :
          LET valid == filename # "None" /\ content # <<"null">>
              original == IF valid /\ files[filename].exists
                          THEN files[filename].content ELSE <<>>
          IN  /\ files' = IF valid /\ files[filename].exists
                          THEN open_for_reading(files, filename) ELSE files
              /\ pv' = [calls |-> pv.calls + 1, op |-> "preview_write",
                        filename |-> filename, old_code |-> <<"null">>,
                        new_code |-> <<"null">>, content |-> content,
                        status |-> IF valid THEN 200 ELSE 400,
                        original |-> original,
                        would_be |-> IF valid THEN content ELSE <<>>]
    /\ UNCHANGED <<now, cbvars, messages, msg_by, assistant_lock, last_request_time,
                   req, api_key, orch, backups, fs, cmd, current_directories,
                   current_directory, resolved, parse>>

NextPV == api_preview_replace_diff \/ api_preview_write_diff

SpecPV == InitFS /\ [][NextPV]_vars

----------------------------------------------------------------------------
(* The directory endpoints and a tool's path resolution                     *)

MaxDirCalls == 3        \* directory requests and tool calls per behaviour

Sessions == {"default", "s1"}               \* session_id
\* directory / path arguments: '.', 'a', '/w/b', '../etc', 'missing', 'f'
DirArgs == {<<".">>, <<"a">>, <<"/", "w", "b">>, <<"..", "etc">>, <<"missing">>, <<"f">>}
\* filename arguments of a tool: 'x' and '/w/b/x'
ToolFilenames == {<<"x">>, <<"/", "w", "b", "x">>}

api_change_directory ==
    /\ resolved.calls < MaxDirCalls
    /\ \E session_id \in Sessions, directory \in DirArgs :
          LET new_directory == IF directory[1] = "/" THEN directory ELSE abspath(directory)
              dotdot == \E i \in 1..Len(new_directory) : new_directory[i] = ".."
              inside == /\ Len(new_directory) >= Len(workspace_root)
                        /\ SubSeq(new_directory, 1, Len(workspace_root)) = workspace_root
              status == IF dotdot \/ ~inside THEN 400
                        ELSE IF path_kind(new_directory) = "none" THEN 404
                        ELSE IF path_kind(new_directory) # "dir" THEN 400
                        ELSE 200
          IN  /\ current_directories' =
                    IF status = 200
                    THEN [s \in DOMAIN current_directories \cup {session_id} |->
                             IF s = session_id THEN new_directory
                             ELSE current_directories[s]]
                    ELSE current_directories
              /\ current_directory' =
                    IF status = 200 /\ app_has_assistant THEN abspath(new_directory)
                    ELSE current_directory
              /\ resolved' = [calls |-> resolved.calls + 1, op |-> "change_directory",
                              session_id |-> session_id, arg |-> directory,
                              status |-> status, path |-> new_directory]
    /\ UNCHANGED <<corevars, cmd, pv, parse>>

\* With a path argument the session's directory is set: the path is made
\* absolute, and a path that holds '..' or starts with '/' becomes the
\* workspace root. Listing a directory that is missing raises (500).
api_tree ==
    /\ resolved.calls < MaxDirCalls
    /\ \E session_id \in Sessions, given \in BOOLEAN, arg \in DirArgs :
          LET absolute == IF arg[1] = "/" THEN arg ELSE abspath(arg)
              path == IF ~given THEN get_current_directory(current_directories, session_id)
                      ELSE IF (\E i \in 1..Len(absolute) : absolute[i] = "..")
                              \/ absolute[1] = "/"
                           THEN workspace_root
                           ELSE absolute
          IN  /\ current_directories' =
                    IF given
                    THEN [s \in DOMAIN current_directories \cup {session_id} |->
                             IF s = session_id THEN path ELSE current_directories[s]]
                    ELSE current_directories
              /\ resolved' = [calls |-> resolved.calls + 1, op |-> "tree",
                              session_id |-> session_id,
                              arg |-> IF given THEN arg ELSE <<>>,
                              status |-> IF path_kind(path) = "dir" THEN 200 ELSE 500,
                              path |-> path]
    /\ UNCHANGED <<corevars, cmd, pv, current_directory, parse>>

\* A tool is called with a filename by the client of a session; the tools
\* are not told the session. read_file stands for every tool: they resolve the
\* path with the same two lines.
read_file ==
    /\ resolved.calls < MaxDirCalls
    /\ \E session_id \in Sessions, filename \in ToolFilenames :
          resolved' = [calls |-> resolved.calls + 1, op |-> "read_file",
                       session_id |-> session_id, arg |-> filename,
                       status |-> IF path_kind(tool_path(current_directory, filename)) = "file"
                                  THEN 200 ELSE 404,
                       path |-> tool_path(current_directory, filename)]
    /\ UNCHANGED <<corevars, cmd, pv, current_directories, current_directory, parse>>

NextDir == api_change_directory \/ api_tree \/ read_file

SpecDir == InitTools({<<>>}) /\ [][NextDir]_vars

\* C24: after a session's current directory has been set to D by a
\* successful change_directory, a tool called with a relative path resolves it
\* against D, and an absolute path is used as given; with no directory set
\* for the session, a relative path resolves against the process working
\* directory.
C24_ResolvesAgainstSessionDirectory ==
    resolved.op = "read_file" =>
        IF resolved.arg[1] = "/" THEN resolved.path = resolved.arg
        ELSE IF resolved.session_id \in DOMAIN current_directories
             THEN resolved.path = current_directories[resolved.session_id] \o resolved.arg
             ELSE resolved.path = workspace_root \o resolved.arg

----------------------------------------------------------------------------
(* The exclusive section and the shared state, checked under Spec           *)

\* C25: every read or write of the shared mutable resources (conversation
\* log, circuit breaker counters, last_request_time, session-directory map)
\* happens while assistant_lock is held by the request doing it: a request
\* that has appended to the log or called the orchestrator, and has not
\* returned yet, holds the lock.
C25_SharedStateUnderLock ==
    \A p \in Procs :
        (/\ req[p].pc \notin {"idle", "done"}
         /\ \E k \in 1..Len(req[p].steps) :
               req[p].steps[k] \in {"append_user", "append_tool", "append_assistant",
                                    "model_call"}) =>
            assistant_lock = p

----------------------------------------------------------------------------
(* More properties of the file tools, checked under SpecFS *)

\* C26: backup records are write-once: a record that is in the Backup Store
\* stays there unchanged whatever tool call follows, a second mutation of the
\* same file, or of another file with the same basename, within the same
\* clock second included.
C26_BackupsWriteOnce ==
    [][\A b \in backups : b \in backups']_vars

----------------------------------------------------------------------------
(* The stream reader on every stream of up to MaxLines lines                *)

MaxLines == 4           \* lines in a stream

\* The backend sends one more line; full_response is what the loop of
\* handle_tool_call / api_execute_action holds after the lines sent so far.
iter_lines ==
    /\ Len(parse.lines) < MaxLines
    /\ \E line \in {Comment, BlankLine, RoleOnly, NoChoices, BadJson, DoneLine,
                    Delta("a"), Delta("b")} :
          parse' = [lines |-> Append(parse.lines, line),
                    full_response |-> accumulate(Append(parse.lines, line), <<>>)]
    /\ UNCHANGED <<corevars, cmd, pv, current_directories, current_directory, resolved>>

NextParse == iter_lines

SpecParse == InitTools({<<>>}) /\ [][NextParse]_vars

\* C27: the accumulated full response equals the concatenation, in stream
\* order, of the content deltas of the well-formed data lines that precede
\* the first data: [DONE] line (or the end of the stream); a data line whose
\* payload is not valid JSON is skipped and the deltas of later lines are
\* still accumulated.
C27_AccumulatesDeltasUntilDone ==
    LET lines == parse.lines
        sentinels == {i \in 1..Len(lines) : lines[i].kind = "data" /\ lines[i].payload = "[DONE]"}
        last == IF sentinels = {} THEN Len(lines)
                ELSE (CHOOSE i \in sentinels : \A j \in sentinels : i <= j) - 1
        deltas == SelectSeq(SubSeq(lines, 1, last),
                            LAMBDA l : /\ l.kind = "data"
                                       /\ l.payload = "json"
                                       /\ l.content # "None")
    IN  parse.full_response = [k \in 1..Len(deltas) |-> deltas[k].content]

C27_Witness ==
    /\ parse.lines = <<Delta("a"), BadJson, Delta("b"), DoneLine>>
    /\ parse.full_response = <<"a", "b">>

----------------------------------------------------------------------------
(* More properties of the entry points, checked under Spec *)

\* C28: tool extraction on the accumulated model text returns a tool call
\* exactly when the text holds a fenced JSON block with a top-level tool_call
\* (stream s2): then the tool is run in the turn; in every other case (stream
\* s1, plain text) the turn goes on as 'no tool call' and returns the
\* original text as the plain reply; the turn is never aborted.
C28_ToolExtraction ==
    \A p \in Procs :
        (/\ req[p].op = "chat"
         /\ req[p].pc = "done"
         /\ orchestrator_succeeded(p)) =>
            LET s == req[p].model.response.stream
            IN  /\ req[p].ret.kind = "reply"
                /\ IF s = "s2"
                   THEN \E k \in 1..Len(req[p].steps) : req[p].steps[k] = "tool_call"
                   ELSE /\ req[p].ret.content = Str(expected_text(s))
                        /\ \A k \in 1..Len(req[p].steps) : req[p].steps[k] # "tool_call"

\* The leading whitespace of a text's first line.
RECURSIVE indentation(_)
indentation(text) ==
    IF text # <<>> /\ Head(text) = " " THEN <<" ">> \o indentation(Tail(text)) ELSE <<>>

\* C29: replace_code re-indents the replacement: the text put in the place of
\* each occurrence of old_code is new_code (one line here) shifted to the
\* leading whitespace of old_code's first line, not new_code verbatim.
C29_ReplacementIsReindented ==
    (/\ fs.pc = "done"
     /\ fs.tool = "replace_code"
     /\ fs.result = "success"
     /\ fs.old_code # <<>>
     /\ is_substring(fs.old_code, fs.pre.content)) =>
        files[fs.path].content =
            substituted(fs.pre.content, occurrences(fs.pre.content, fs.old_code, 1),
                        fs.old_code, indentation(fs.old_code) \o fs.new_code, 1)

\* C30: a request rejected for a missing required field (empty or absent
\* message on /api/chat, absent tool name on /api/execute_action) returns an
\* error with status 400 and changes nothing: the log is as it was when the
\* request came in, no tool ran, no model call was issued and the exclusive
\* section was never acquired. A request with the field missing is always
\* rejected so.
C30_RejectionChangesNothing ==
    \A p \in Procs :
        /\ (/\ req[p].op \in {"chat", "exec"}
            /\ req[p].ret.status = 400) =>
               /\ req[p].pc = "done"
               /\ req[p].ret.kind = "error"
               /\ req[p].steps = <<>>
               /\ req[p].model = NoModel
               /\ own_messages(p) = <<>>
               /\ Len(messages) = req[p].base
               /\ assistant_lock # p
        /\ (req[p].op = "exec" /\ req[p].name = "None") =>
               req[p].pc = "done" /\ req[p].ret.status = 400
        /\ (req[p].op = "chat" /\ req[p].pc # "done") => req[p].text # ""
        /\ (req[p].op = "chat" /\ req[p].pc = "done" /\ req[p].steps = <<>>) =>
               req[p].ret.status = 400

C30_Witness ==
    /\ req[1].op = "exec"
    /\ req[1].pc = "done"
    /\ req[1].ret = Error(400, <<"Missing tool name">>)
    /\ req[1].base = 2
    /\ Len(messages) = 2
    /\ assistant_lock = 0

----------------------------------------------------------------------------
(* handle_tool_call on its own, given every tool of the catalog             *)

\* Every name of the catalog, an unknown name and a missing one; the backend
\* answers 200, answers 500 or raises for every model.
InputsGate ==
    [tool_names |-> available_functions \cup {"nonexistent_tool", "None"},
     tool_args |-> ArgInputs, tool_outcomes |-> ToolOutcomes,
     backend |-> {[m \in ModelSet |-> o] : o \in Outcomes}, streams |-> Streams]

NextGate == GatewayStep(1, InputsGate)

SpecGate == Init /\ [][NextGate]_vars

\* C31: handle_tool_call executes a tool immediately, with no action-request,
\* exactly when its name is in the catalog and not in the dangerous set: the
\* tools it runs without confirmation are list_files, read_file, search_files
\* and run_command, and no others.
C31_SafeToolsRunUnconfirmed ==
    \A p \in Procs :
        req[p].op = "tool" =>
            LET ran == \E k \in 1..Len(req[p].steps) : req[p].steps[k] = "tool_call"
            IN  /\ ran <=> req[p].name \in {"list_files", "read_file", "search_files",
                                            "run_command"}
                /\ ran <=> (req[p].name \in available_functions
                            /\ req[p].name \notin dangerous_tools)
                /\ ran => req[p].steps[1] = "tool_call"
                /\ ran => req[p].ret.kind # "action_request"
                /\ ~ran => own_messages(p) = <<>> /\ req[p].pc = "done"

C31_Witness ==
    /\ req[1].op = "tool"
    /\ req[1].name = "search_files"
    /\ req[1].pc = "done"
    /\ req[1].ret.kind = "reply"
    /\ roles(own_messages(1)) = <<"tool", "assistant">>


\* C32: the function of a dangerous tool (write_file, delete_file,
\* create_directory, replace_code, insert_at_line) is invoked only by
\* api_execute_action: a request served by process_user_message,
\* process_user_message_stream or handle_tool_call never invokes one, and adds
\* no result of one to the conversation, whatever the backend returns.
C32_DangerousToolsOnlyWhenConfirmed ==
    \A p \in Procs :
        LET invoked == \E k \in 1..Len(req[p].steps) : req[p].steps[k] = "tool_call"
            ms == own_messages(p)
        IN  /\ req[p].op \in {"chat", "stream"} => ~invoked
            /\ req[p].op = "tool" /\ invoked => req[p].name \notin dangerous_tools
            /\ req[p].op # "exec" =>
                   \A k \in 1..Len(ms) :
                       ms[k].role = "tool" => ms[k].name \notin dangerous_tools

\* handle_tool_call has answered delete_file with an action-request after an
\* earlier confirmed write_file put its result into the conversation.
C32_Witness ==
    /\ req[1].op = "tool"
    /\ req[1].name = "delete_file"
    /\ req[1].pc = "done"
    /\ req[1].ret.kind = "action_request"
    /\ req[1].steps = <<"return">>
    /\ \E i \in 1..Len(messages) :
           messages[i].role = "tool" /\ messages[i].name = "write_file"


----------------------------------------------------------------------------
(* Further properties of the circuit breaker, checked under SpecCB *)

\* C33: between calls (failure_threshold >= 1), state OPEN implies
\* failure_count >= failure_threshold and state CLOSED implies
\* failure_count < failure_threshold.
C33_StateAgreesWithCount ==
    cb_pc = "idle" =>
        /\ circuit_breaker.failure_threshold >= 1
        /\ circuit_breaker.state = "OPEN" =>
               circuit_breaker.failure_count >= circuit_breaker.failure_threshold
        /\ circuit_breaker.state = "CLOSED" =>
               circuit_breaker.failure_count < circuit_breaker.failure_threshold

\* A failed trial has left the breaker OPEN with its count above the threshold.
C33_Witness ==
    /\ cb_pc = "idle"
    /\ circuit_breaker.state = "OPEN"
    /\ circuit_breaker.failure_count > circuit_breaker.failure_threshold
    /\ cb_last.trial
    /\ cb_last.outcome = "raised"

\* C34: a successful call in state CLOSED leaves failure_count,
\* last_failure_time and state unchanged; failure_count decreases only when a
\* HALF_OPEN trial succeeds, and then to 0; every failed call adds one to it
\* and the breaker is OPEN as soon as it has reached failure_threshold, so
\* before any reset the breaker is OPEN exactly when the failed calls so far
\* number failure_threshold, however many successful calls came between them.
C34_SuccessKeepsCount ==
    /\ [][/\ (cb_pc = "in_func" /\ cb_pc' = "idle" /\ cb_fails' = cb_fails
              /\ circuit_breaker.state = "CLOSED") =>
                 circuit_breaker' = circuit_breaker
          /\ circuit_breaker'.failure_count < circuit_breaker.failure_count =>
                 /\ circuit_breaker.state = "HALF_OPEN"
                 /\ cb_last'.outcome = "returned"
                 /\ circuit_breaker'.failure_count = 0
          /\ cb_fails' # cb_fails =>
                 /\ circuit_breaker'.failure_count = circuit_breaker.failure_count + 1
                 /\ circuit_breaker'.failure_count >= circuit_breaker.failure_threshold =>
                        circuit_breaker'.state = "OPEN"]_vars
    /\ []((cb_pc = "idle" /\ circuit_breaker.failure_count = cb_fails) =>
              (circuit_breaker.state = "OPEN" <=>
                   cb_fails >= circuit_breaker.failure_threshold))

\* A call has returned in state CLOSED after an earlier failure, and the
\* count of that failure is still there.
C34_Witness ==
    /\ cb_pc = "idle"
    /\ cb_last.outcome = "returned"
    /\ cb_last.pre.state = "CLOSED"
    /\ cb_last.pre.failure_count = 1
    /\ circuit_breaker.failure_threshold = 2
    /\ circuit_breaker.failure_count = 1
    /\ circuit_breaker.state = "CLOSED"
    /\ cb_calls = 2

\* C35: HALF_OPEN is never the breaker's state between two calls: a call that
\* enters HALF_OPEN leaves the breaker CLOSED when its trial returns and OPEN
\* when its trial raises.
C35_HalfOpenOnlyInsideCall ==
    /\ cb_pc = "idle" => circuit_breaker.state # "HALF_OPEN"
    /\ circuit_breaker.state = "HALF_OPEN" => cb_pc = "in_func" /\ cb_last.trial
    /\ (cb_pc = "idle" /\ cb_last.trial) =>
           /\ cb_last.outcome = "returned" => circuit_breaker.state = "CLOSED"
           /\ cb_last.outcome = "raised" => circuit_breaker.state = "OPEN"
           /\ cb_last.outcome \in {"returned", "raised"}

C35_Witness ==
    /\ cb_pc = "idle"
    /\ cb_last.trial
    /\ cb_last.pre.state = "OPEN"
    /\ cb_last.outcome = "returned"
    /\ circuit_breaker.state = "CLOSED"


----------------------------------------------------------------------------
(* The orchestrator with a breaker one failure away from opening            *)

\* The state a first _execute_model_call leaves when the preferred model and
\* the three configured ones all raised: failure_count is 4 of 5.
InitTrip ==
    /\ \E d \in OrchDurations :
          LET out == [m \in Candidates |-> "raise"]
              r == execute_model_call(
                       CircuitBreaker_init(DEFAULT_FAILURE_THRESHOLD,
                                           DEFAULT_RECOVERY_TIMEOUT),
                       request_interval, 0, OtherModel, TRUE, out, d, "s1")
          IN  /\ now = r.t
              /\ circuit_breaker = r.cb
              /\ last_request_time = r.last_request_time
    /\ cb_pc = "idle"
    /\ cb_calls = 0
    /\ cb_fails = 0
    /\ cb_last = NoCall
    /\ messages = <<system_message>>
    /\ msg_by = <<0>>
    /\ assistant_lock = 0
    /\ req = [p \in Procs |-> IdleReq]
    /\ orch = NoOrch
    /\ files = [path \in FsPaths |-> Absent]
    /\ backups = {}
    /\ fs = NoFs
    /\ ToolInit({<<>>})
    /\ api_key = TRUE

SpecTrip == InitTrip /\ [][NextOrch]_vars

\* C36: a backend response with a non-200 status is not a failure of the
\* breaker: a call that starts CLOSED raises failure_count by the number of
\* requests that raised, whatever statuses came back; a non-200 response to
\* the HALF_OPEN trial closes the breaker and resets failure_count to 0; and
\* the orchestrator still moves on from a non-200 response to the next
\* candidate, or fails when there is none.
C36_StatusIsNotABreakerFailure ==
    [][orch'.calls # orch.calls =>
          LET a == orch'.attempts
              n == Len(a)
              raises(from) == Cardinality({k \in from..n : a[k].how = "raise"})
          IN  /\ circuit_breaker.state = "CLOSED" =>
                     circuit_breaker'.failure_count =
                         circuit_breaker.failure_count + raises(1)
              /\ (circuit_breaker.state = "OPEN" /\ n >= 1 /\ a[1].how = "500") =>
                     /\ circuit_breaker'.state = "CLOSED"
                     /\ circuit_breaker'.failure_count = raises(2)
              /\ \A k \in 1..n :
                     a[k].how = "500" =>
                         IF k < Len(expected_try_order(orch'.model_name))
                         THEN n > k /\ a[k + 1].model # a[k].model
                         ELSE /\ orch'.error = "All models failed"
                              /\ orch'.response = NoneResponse]_vars

\* Every candidate answered the trial call with a non-200 status: the breaker
\* that had counted to its threshold is CLOSED with failure_count 0 and the
\* call failed.
C36_Witness ==
    /\ orch.calls = 2
    /\ Len(orch.attempts) = 3
    /\ \A k \in 1..3 : orch.attempts[k].how = "500"
    /\ circuit_breaker.state = "CLOSED"
    /\ circuit_breaker.failure_count = 0
    /\ circuit_breaker.last_failure_time > 0
    /\ orch.error = "All models failed"

\* C37: while the breaker is OPEN and the recovery timeout has not elapsed, an
\* orchestrator call sends no request for any candidate, returns a failure and
\* leaves the breaker unchanged; and once a raised request has opened the
\* breaker during a call, the remaining candidates of that call are not
\* requested.
C37_OpenBreakerSendsNothing ==
    [][orch'.calls # orch.calls =>
          LET a == orch'.attempts
              n == Len(a)
              cb == circuit_breaker
              count(k) == cb.failure_count
                              + Cardinality({j \in 1..k : a[j].how = "raise"})
              opened_at(k) ==
                  /\ a[k].how = "raise"
                  /\ \/ cb.state = "CLOSED" /\ count(k) >= cb.failure_threshold
                     \/ cb.state = "OPEN" /\ k = 1
          IN  /\ (cb.state = "OPEN" /\ ~cb_timeout_elapsed(cb, last_request_time')) =>
                     /\ n = Len(expected_try_order(orch'.model_name))
                     /\ \A k \in 1..n : a[k].how = "rejected"
                     /\ orch'.response = NoneResponse
                     /\ orch'.error = "All models failed"
                     /\ circuit_breaker' = cb
              /\ \A k \in 1..n :
                     opened_at(k) =>
                         /\ n = Len(expected_try_order(orch'.model_name))
                         /\ \A j \in (k + 1)..n : a[j].how = "rejected"
                         /\ circuit_breaker'.state = "OPEN"
                         /\ orch'.error = "All models failed"]_vars

\* A call found the breaker OPEN within its recovery timeout: all three
\* candidates were rejected without a request.
C37_Witness ==
    /\ orch.calls = 2
    /\ Len(orch.attempts) = 3
    /\ \A k \in 1..3 : orch.attempts[k].how = "rejected"
    /\ circuit_breaker.state = "OPEN"
    /\ circuit_breaker.failure_count = 5
    /\ orch.error = "All models failed"


----------------------------------------------------------------------------
(* Progress of the threads that enter assistant_lock                        *)

\* One backend behaviour per outcome of a model call, one tool, one text.
InputsLive ==
    [texts |-> {"list files"}, streams |-> {"s1"},
     backend |-> {[m \in ModelSet |-> o] : o \in {"200", "raise"}},
     tool_outcomes |-> {"ok"},
     exec_names |-> {"write_file", "None"}, exec_args |-> {"args1"}]

NextLive == \E p \in Procs : LockedStep(p, InputsLive)

\* The steps thread p takes by itself once it serves a request: entering the
\* lock when it is free, appending, running the tool (file operations, and
\* subprocess.run with timeout=30), the one yield of the stream generator
\* and its end or close, replying. The return of _execute_model_call is not
\* among them: requests.post at lines 421-428 is given no timeout, so when
\* it returns is up to the backend.
ThreadRuns(p) ==
    \/ PumAcquire(p) \/ PumAppendUser(p) \/ PumReply(p)
    \/ PumsAcquire(p) \/ PumsAppendUser(p) \/ PumsYieldError(p) \/ PumsFinish(p)
    \/ EaAcquire(p) \/ EaCall(p, InputsLive) \/ EaAppend(p) \/ EaReply(p)

SpecLive == Init /\ [][NextLive]_vars /\ \A p \in Procs : WF_vars(ThreadRuns(p))

\* C38: every request that acquires assistant_lock eventually releases it,
\* so a request waiting for the lock eventually enters the section; this
\* includes process_user_message_stream, which holds the lock across its
\* yield, also when the client stops consuming the stream.
C38_LockEventuallyReleased ==
    \A p \in Procs :
        /\ (assistant_lock = p) ~> (assistant_lock # p)
        /\ waits_for_section(p) ~> in_section(p)

====
